---- MODULE Spec2Model ----
(***************************************************************************)
(* Extraction-and-load engine of the DeFi pipeline: the PostgresLoader     *)
(* (staged upsert, run log) and the orchestrator of run_extraction.py.     *)
(*                                                                         *)
(* The specifications share the loader's and the extractors' operators:    *)
(*   SpecLoader  one caller of PostgresLoader.upsert, any batch, any fault *)
(*   Spec        the orchestrator run(): sources in turn, summary, exit    *)
(*   SpecConc    two upsert calls that overlap in time, with a wall clock   *)
(*   SpecFetch   one _make_request call under the tenacity retry           *)
(*   SpecThrottle  the _throttle calls of one extractor, one task          *)
(*   SpecPages   EtherscanExtractor.extract page by page, then its load    *)
(*   SpecDedupe  drop_duplicates on the rows a source has normalized       *)
(*   SpecSources extract() of CoinGecko, DeFiLlama, Dune, LiFi, Portfolio  *)
(***************************************************************************)
EXTENDS Integers, Sequences, FiniteSets, TLC

VARIABLES
    target,            \* raw.<table>: committed rows of every target table
    staging,           \* raw._temp_*: staging tables that exist, with their owner
    pipeline_runs,     \* raw._pipeline_runs: the audit rows, in insertion order
    clock,             \* wall clock, in ticks of 1/TicksPerSecond second
    batch,             \* SpecLoader: the caller's current (df, table, conflict_columns)
    lpc,               \* SpecLoader: idle / prepared / once / twice
    last,              \* the loader.upsert call just made, and what it did
    pc,                \* Spec: position of run()
    dry_run,           \* Spec: the --dry-run option
    source,            \* Spec: the --source option
    extractors_to_run, \* Spec: names selected, in dict order
    idx,               \* Spec: sources the for loop has entered
    results,           \* Spec: the results list of run()
    exit_code,         \* Spec: process exit code, "running" until the exit
    srcState,          \* Spec: per source pending/extracting/loaded/empty/failed
    trace,             \* Spec: per source, the calls _run_extractor made
    calls,             \* SpecConc: the overlapping upsert calls
    fetch,             \* SpecFetch: one _make_request call and its attempts
    limiter,           \* SpecThrottle: one extractor's _throttle calls
    pager,             \* SpecPages: one extract_transactions call and its load
    dedupe,            \* SpecDedupe: rows a source normalizes, and its batch
    extraction         \* SpecSources: one extract() of an API or enrichment source

vars == <<target, staging, pipeline_runs, clock, batch, lpc, last, pc, dry_run,
          source, extractors_to_run, idx, results, exit_code, srcState, trace,
          calls, fetch, limiter, pager, dedupe, extraction>>

loaderVars == <<batch, lpc>>
orchVars   == <<pc, dry_run, source, extractors_to_run, idx, results, exit_code,
                srcState, trace>>
extractVars == <<fetch, limiter, pager, dedupe, extraction>>

----------------------------------------------------------------------------
(* Bounds of the model *)

MaxBatch       == 3   \* rows in a DataFrame handed to upsert (SpecLoader)
NumSources     == 3   \* entries of extractors_to_run that are modelled
MaxExtract     == 1   \* rows extract() returns in Spec and SpecConc
TicksPerSecond == 2   \* clock resolution: ticks per wall-clock second
MaxClock       == 3   \* last tick of the wall clock
MaxLogFaults   == 1   \* audit inserts the store fails in one run
MaxAttempts    == 3   \* largest settings.max_retries; length of a fetch's script
MaxInterval    == 3   \* largest 1 / rate_limit_rps, in ticks of the monotonic clock
MaxTime        == 8   \* last tick of the monotonic clock
MaxOversleep   == 1   \* ticks time.sleep may sleep longer than asked
MaxTxs         == 2   \* transactions of one contract upstream
MaxPageSize    == 2   \* largest page_size of extract_transactions
MaxPoints      == 2   \* items in one upstream answer (prices, TVL entries, labels)

Keys == {1, 2, 3}     \* values of the conflict-key column "k"
Vals == {1, 2}        \* values of the non-key column "v"
NULL == 0             \* SQL NULL: a column the INSERT does not list
Blocks == {1, 2}      \* block numbers of the upstream transactions
Ids == {2, 3}         \* dates of upstream series; wallet addresses in the store

----------------------------------------------------------------------------
(* Sources, target tables, conflict keys *)

AllSources == <<"etherscan", "defillama", "dune", "coingecko", "lifi", "portfolio">>

Sources == {AllSources[i] : i \in 1..NumSources}

TargetTable(s) ==
    CASE s = "etherscan" -> "etherscan_transactions"
      [] s = "defillama" -> "defillama_tvl"
      [] s = "dune"      -> "dune_wallet_labels"
      [] s = "coingecko" -> "token_prices"
      [] s = "lifi"      -> "cross_chain_activity"
      [] s = "portfolio" -> "wallet_enrichment"

Tables == {TargetTable(s) : s \in Sources}

\* The unique constraint of every target table, in the model's column names.
PrimaryKey == {"k"}

----------------------------------------------------------------------------
(* DataFrames and tables *)

Row == [k : Keys, v : Vals \cup {NULL}]

SeqSet(s) == {s[i] : i \in DOMAIN s}

\* Rows of a frame are listed by nondecreasing key: the merge treats rows of
\* different keys independently, so only the order among equal keys matters.
KeySorted(rows) == \A i \in 1..(Len(rows) - 1) : rows[i].k <= rows[i + 1].k

SeqsUpTo(S, n) == UNION {[1..m -> S] : m \in 0..n}

\* Frames with columns (k, v), and frames with the key column alone.
FullFrames(n) ==
    {[columns |-> <<"k", "v">>, rows |-> r] :
        r \in {q \in SeqsUpTo([k : Keys, v : Vals], n) : KeySorted(q)}}

KeyFrames(n) ==
    {[columns |-> <<"k">>, rows |-> r] :
        r \in {q \in SeqsUpTo([k : Keys, v : {NULL}], n) : KeySorted(q)}}

Frames(n) == FullFrames(n) \cup KeyFrames(n)

Empty(df) == df.rows = <<>>

KeysOf(rows) == {rows[i].k : i \in DOMAIN rows}

UniqueKeys(rows) == \A i, j \in DOMAIN rows : rows[i].k = rows[j].k => i = j

TableKeys(T) == {r.k : r \in T}

HasKey(T, key) == \E r \in T : r.k = key

RowOf(T, key) == CHOOSE r \in T : r.k = key

WellFormed(T) == \A r1, r2 \in T : r1.k = r2.k => r1 = r2

WellFormedTables == {T \in SUBSET Row : WellFormed(T)}

----------------------------------------------------------------------------
(* PostgresLoader.upsert *)

InSeq(x, s) == \E i \in DOMAIN s : s[i] = x

\* update_cols = [c for c in df.columns if c not in conflict_columns]
UpdateCols(columns, conflict_columns) ==
    SelectSeq(columns, LAMBDA c : ~InSeq(c, conflict_columns))

\* temp_table = f"_temp_{table}_{int(datetime.utcnow().timestamp())}"
TempTable(table, now) == <<"_temp", table, now \div TicksPerSecond>>

\* df.to_sql(temp_table, conn, if_exists="replace"): a table of that name is
\* dropped and created again, then holds the frame's rows.
ToSql(db, temp, df) ==
    [db EXCEPT !.staging = {s \in @ : s.name # temp}
                           \cup {[name |-> temp, columns |-> df.columns, rows |-> df.rows]}]

Staged(db, temp) == CHOOSE s \in db.staging : s.name = temp

KeepTemp(db, temp) == db

\* DROP TABLE IF EXISTS schema.temp_table
DropTemp(db, temp) == [db EXCEPT !.staging = {s \in @ : s.name # temp}]

\* DO UPDATE SET "c" = EXCLUDED."c" for every update column: the matched row
\* keeps its key and takes the staged value of each update column.
AccumulatingSet(old, new, update_cols) ==
    [k |-> old.k, v |-> IF InSeq("v", update_cols) THEN old.v + new.v ELSE old.v]

KeepingSet(old, new, update_cols) == old

DoUpdateSet(old, new, update_cols) ==
    [k |-> old.k, v |-> IF InSeq("v", update_cols) THEN new.v ELSE old.v]

\* INSERT INTO target (cols) SELECT cols FROM staging ON CONFLICT (key) ...,
\* row by row in the order of the staged rows. With DO UPDATE a second staged
\* row for a key this command already wrote is an error ("cannot affect row a
\* second time"); with DO NOTHING it is skipped.
RECURSIVE InsertSelect(_, _, _, _, _)
InsertSelect(T, rows, i, update_cols, touched) ==
    IF i > Len(rows) THEN [ok |-> TRUE, table |-> T]
    ELSE LET r == rows[i] IN
         IF HasKey(T, r.k)
         THEN IF update_cols # <<>>
              THEN IF r.k \in touched
                   THEN [ok |-> FALSE, table |-> T]
                   ELSE InsertSelect((T \ {RowOf(T, r.k)})
                                        \cup {DoUpdateSet(RowOf(T, r.k), r, update_cols)},
                                     rows, i + 1, update_cols, touched \cup {r.k})
              ELSE InsertSelect(T, rows, i + 1, update_cols, touched)
         ELSE InsertSelect(T \cup {r}, rows, i + 1, update_cols, touched \cup {r.k})

\* The merge statement of upsert (lines 78-97). ON CONFLICT (cols) needs a
\* unique constraint on exactly those columns, or the statement is an error.
Merge(T, staged, conflict_columns) ==
    IF SeqSet(conflict_columns) # PrimaryKey
    THEN [ok |-> FALSE, table |-> T]
    ELSE InsertSelect(T, staged.rows, 1,
                      UpdateCols(staged.columns, conflict_columns), {})

\* Places where the store can fail a call: opening the transaction, the
\* staging write, the merge statement, the staging drop, the commit.
Faults == {"none", "begin", "to_sql", "execute", "drop", "commit"}

\* "with self.engine.begin() as conn": an exception inside the block rolls the
\* transaction back, DDL included; before is the store at BEGIN.
NoRollback(before, now) == now

Rollback(before, now) == before

\* if df.empty: return 0 -- before self.engine is touched
NeverSkips(df) == FALSE

SkipsStore(df) == Empty(df)

\* upsert(df, table, conflict_columns): the store afterwards, whether the
\* call raised, the value returned, and whether a transaction was begun.
Upsert(db, df, table, conflict_columns, now, fault) ==
    LET temp == TempTable(table, now)
        s1   == ToSql(db, temp, df)
        m    == Merge(s1.target[table], Staged(s1, temp), conflict_columns)
        s2   == IF conflict_columns # <<>>
                THEN [s1 EXCEPT !.target[table] = m.table]
                ELSE s1
        s3   == DropTemp(s2, temp)
        Raise(reached) ==
            [db |-> Rollback(db, reached), raised |-> TRUE, ret |-> 0, begun |-> TRUE]
    IN  IF SkipsStore(df)
        THEN [db |-> db, raised |-> FALSE, ret |-> 0, begun |-> FALSE]
        ELSE IF fault = "begin" THEN Raise(db)
        ELSE IF fault = "to_sql" THEN Raise(s1)
        ELSE IF conflict_columns # <<>> /\ (fault = "execute" \/ ~m.ok) THEN Raise(s2)
        ELSE IF fault = "drop" THEN Raise(s2)
        ELSE IF fault = "commit" THEN Raise(s3)
        ELSE [db |-> s3, raised |-> FALSE, ret |-> Len(df.rows), begun |-> TRUE]

ConflictChoices == {<<>>, <<"k">>, <<"v">>}

Store == [target |-> target, staging |-> staging]

NoCall == [op |-> "none"]

\* What the model remembers of the latest upsert call.
CallRecord(df, table, cc, out, prevRaised, first, nth) ==
    [op |-> "upsert", df |-> df, table |-> table, cc |-> cc,
     pre |-> target[table], raised |-> out.raised, ret |-> out.ret,
     begun |-> out.begun, prevRaised |-> prevRaised, first |-> first, nth |-> nth]

----------------------------------------------------------------------------
(* SpecLoader: one caller, one target table *)

LoaderTable == TargetTable("etherscan")

\* Tables an earlier load can have left: one row per key at most.
InitialTables == {T \in SUBSET [k : Keys, v : Vals] : WellFormed(T)}

NoBatch == [table |-> "none"]

OrchIdle ==
    /\ pc = "idle"
    /\ dry_run = FALSE
    /\ source = "all"
    /\ extractors_to_run = <<>>
    /\ idx = 0
    /\ results = <<>>
    /\ exit_code = "running"
    /\ srcState = [s \in Sources |-> "pending"]
    /\ trace = [s \in Sources |-> <<>>]

NoFetch == [pc |-> "idle"]

NoLimiter == [pc |-> "idle"]

NoPager == [pc |-> "idle"]

NoDedupe == [pc |-> "idle"]

NoExtract == [pc |-> "idle"]

ExtractIdle ==
    /\ fetch = NoFetch
    /\ limiter = NoLimiter
    /\ pager = NoPager
    /\ dedupe = NoDedupe
    /\ extraction = NoExtract

InitLoader ==
    /\ \E T \in InitialTables :
          target = [t \in Tables |-> IF t = LoaderTable THEN T ELSE {}]
    /\ staging = {}
    /\ pipeline_runs = <<>>
    /\ clock = 0
    /\ batch = NoBatch
    /\ lpc = "idle"
    /\ last = NoCall
    /\ calls = <<>>
    /\ OrchIdle
    /\ ExtractIdle

\* The caller builds a batch: a frame, its target table, its conflict key.
Prepare(df, cc) ==
    /\ lpc = "idle"
    /\ batch' = [table |-> LoaderTable, df |-> df, cc |-> cc]
    /\ lpc' = "prepared"
    /\ UNCHANGED <<target, staging, pipeline_runs, clock, last, calls, orchVars,
                   extractVars>>

\* loader.upsert(df, table, conflict_columns) on the current batch; called a
\* second time it is the same batch again (a retried or repeated upsert).
CallUpsert(fault) ==
    /\ lpc \in {"prepared", "once"}
    /\ LET out == Upsert(Store, batch.df, batch.table, batch.cc, clock, fault) IN
         /\ target' = out.db.target
         /\ staging' = out.db.staging
         /\ last' = CallRecord(batch.df, batch.table, batch.cc, out,
                               IF lpc = "once" THEN last.raised ELSE FALSE,
                               IF lpc = "once" THEN last.pre ELSE target[batch.table],
                               IF lpc = "once" THEN 2 ELSE 1)
    /\ lpc' = IF lpc = "prepared" THEN "once" ELSE "twice"
    /\ UNCHANGED <<pipeline_runs, clock, batch, calls, orchVars, extractVars>>

NextLoader ==
    \/ \E df \in Frames(MaxBatch), cc \in ConflictChoices : Prepare(df, cc)
    \/ \E fault \in Faults : CallUpsert(fault)

SpecLoader == InitLoader /\ [][NextLoader]_vars

TypeOKLoader ==
    /\ \A t \in Tables : target[t] \in WellFormedTables
    /\ staging = {}

----------------------------------------------------------------------------
(* Claims about PostgresLoader.upsert, checked under SpecLoader *)

Called == last.op = "upsert"

Returned == Called /\ ~last.raised

\* The claim's batch: non-empty, its conflict key K unique within it, and K
\* passed as conflict_columns.
KeyedBatch ==
    /\ Called
    /\ ~Empty(last.df)
    /\ UniqueKeys(last.df.rows)
    /\ last.cc = <<"k">>

\* C1: upsert is idempotent. When upsert is called twice in a row with the
\* same batch and the first call returned, the target table after the second
\* call holds exactly the rows it held after the first. This is checked for
\* every batch and conflict_columns value, the claim's non-empty batches with
\* a unique conflict key among them.
UpsertIdempotent ==
    (lpc = "twice" /\ ~last.prevRaised) => target[last.table] = last.pre

\* C1 witness: a keyed batch was upserted twice, both calls returned, and the
\* first call both inserted a new key and changed the value of an existing one.
UpsertTwiceDone ==
    /\ lpc = "twice"
    /\ KeyedBatch
    /\ ~last.prevRaised
    /\ ~last.raised
    /\ \E i \in DOMAIN last.df.rows : ~HasKey(last.first, last.df.rows[i].k)
    /\ \E i \in DOMAIN last.df.rows :
          /\ HasKey(last.first, last.df.rows[i].k)
          /\ RowOf(last.first, last.df.rows[i].k).v # last.df.rows[i].v

\* C2: last-write-wins merge. After upsert(B, table, conflict_columns = K)
\* returns, for every row r of B the target table holds exactly one row with
\* r's key, and that row carries r's value in every non-key column of B; a
\* target row whose key is not in B is the row it was before the call, and no
\* other row appears.
LastWriteWins ==
    (Returned /\ ~Empty(last.df) /\ last.cc = <<"k">>) =>
        LET T == target[last.table]
            B == last.df
        IN  /\ \A i \in DOMAIN B.rows :
                  /\ Cardinality({t \in T : t.k = B.rows[i].k}) = 1
                  /\ InSeq("v", B.columns) => RowOf(T, B.rows[i].k).v = B.rows[i].v
            /\ \A t \in last.pre : t.k \notin KeysOf(B.rows) => t \in T
            /\ \A t \in T : t.k \notin KeysOf(B.rows) => t \in last.pre
            /\ Cardinality(T) = Cardinality(TableKeys(last.pre) \cup KeysOf(B.rows))

\* C2 witness: the scenario's second step. A table of 3 rows receives a batch
\* of 1 row that shares a key with a different value: 3 rows remain and the
\* shared-key row carries the batch's value.
SharedKeyOverwritten ==
    /\ Returned
    /\ last.cc = <<"k">>
    /\ Cardinality(last.pre) = 3
    /\ Len(last.df.rows) = 1
    /\ InSeq("v", last.df.columns)
    /\ HasKey(last.pre, last.df.rows[1].k)
    /\ RowOf(last.pre, last.df.rows[1].k).v # last.df.rows[1].v
    /\ Cardinality(target[last.table]) = 3
    /\ RowOf(target[last.table], last.df.rows[1].k).v = last.df.rows[1].v

\* C4: for a batch with zero rows upsert returns 0 without raising and without
\* touching the store: no transaction is begun, no staging table exists, and
\* the target table is as it was.
EmptyBatchNoStore ==
    (Called /\ Empty(last.df)) =>
        /\ ~last.raised
        /\ last.ret = 0
        /\ ~last.begun
        /\ staging = {}
        /\ target[last.table] = last.pre

\* C4 witness: upsert was called with an empty frame on a table holding rows,
\* whatever the store would have done to a transaction.
EmptyBatchUpserted ==
    /\ Called
    /\ Empty(last.df)
    /\ last.cc = <<"k">>
    /\ target[last.table] # {}

----------------------------------------------------------------------------
(* PostgresLoader.log_run *)

RunRecord(name, status, extracted, loaded, error) ==
    [extractor_name |-> name, status |-> status, rows_extracted |-> extracted,
     rows_loaded |-> loaded, error_message |-> error]

\* log_run: one INSERT into raw._pipeline_runs in its own transaction; any
\* exception is caught and logged as a warning, so the row is simply missing.
LogRun(runs, rec, insert_fails) == IF insert_fails THEN runs ELSE Append(runs, rec)

LogRunPropagates(insert_fails) == insert_fails

\* "except Exception as e: logger.warning(...)": whether log_run raises to its
\* caller when the insert failed. The handler takes every Exception.
LogRunRaises(insert_fails) == FALSE

----------------------------------------------------------------------------
(* run_extraction._run_extractor *)

NoError == "None"

ExtractError == "upstream error"

StoreError == "store error"

AttributeError == "'NoneType' object has no attribute"

\* conflict_map.get(source_name): every source's registry key is the key
\* column of its table; a name outside the map gives None.
ConflictMap(name) == IF InSeq(name, AllSources) THEN <<"k">> ELSE <<>>

\* The frames extract() hands back: n rows with keys 1..n, n = 0 the empty one.
ExtractedFrame(n) ==
    [columns |-> <<"k", "v">>, rows |-> [i \in 1..n |-> [k |-> i, v |-> 1]]]

ExtractOutcomes ==
    {[raised |-> TRUE, df |-> ExtractedFrame(0)]}
        \cup {[raised |-> FALSE, df |-> ExtractedFrame(n)] : n \in 0..MaxExtract}

Result(name, status, rows, error) ==
    [source |-> name, status |-> status, rows |-> rows, error |-> error]

ExceptDropsMessage(loader, name, e, db, runs, steps, up, log_fails) ==
    [returned |-> TRUE,
     result |-> Result(name, "failed", 0, e),
     db |-> db,
     runs |-> LogRun(runs, RunRecord(name, "failed", 0, 0, NoError), log_fails),
     steps |-> Append(steps, "log_run"),
     up |-> up]

\* "except Exception as e": the failed run is logged, then reported. With no
\* loader (dry run) loader.log_run is an attribute lookup on None, which
\* raises inside the handler and leaves _run_extractor as an exception.
ExceptBranch(loader, name, e, db, runs, steps, up, log_fails) ==
    IF loader = "None"
    THEN [returned |-> FALSE, db |-> db, runs |-> runs, steps |-> steps, up |-> up]
    ELSE IF LogRunRaises(log_fails)
    THEN [returned |-> FALSE, db |-> db, runs |-> runs,
          steps |-> Append(steps, "log_run"), up |-> up]
    ELSE [returned |-> TRUE,
          result |-> Result(name, "failed", 0, e),
          db |-> db,
          runs |-> LogRun(runs, RunRecord(name, "failed", 0, 0, e), log_fails),
          steps |-> Append(steps, "log_run"),
          up |-> up]

ReportsSuccess(loader, name, db, runs, steps, log_fails) ==
    [returned |-> TRUE,
     result |-> Result(name, "success", 0, NoError),
     db |-> db,
     runs |-> LogRun(runs, RunRecord(name, "success", 0, 0, NoError), log_fails),
     steps |-> Append(steps, "log_run"),
     up |-> NoCall]

\* "if df.empty": the run is logged as partial and reported empty.
EmptyBranch(loader, name, db, runs, steps, log_fails) ==
    IF loader = "None"
    THEN ExceptBranch(loader, name, AttributeError, db, runs, steps, NoCall, log_fails)
    ELSE IF LogRunRaises(log_fails)
    THEN ExceptBranch(loader, name, StoreError, db, runs, Append(steps, "log_run"),
                      NoCall, log_fails)
    ELSE [returned |-> TRUE,
          result |-> Result(name, "empty", 0, NoError),
          db |-> db,
          runs |-> LogRun(runs, RunRecord(name, "partial", 0, 0, NoError), log_fails),
          steps |-> Append(steps, "log_run"),
          up |-> NoCall]

\* The load: loader.upsert, then the success log and result; an exception of
\* upsert goes to the except branch.
LoadBranch(loader, name, df, db, runs, steps, now, fault, log_fails) ==
    IF loader = "None"
    THEN ExceptBranch(loader, name, AttributeError, db, runs, steps, NoCall, log_fails)
    ELSE LET table == TargetTable(name)
             cc    == ConflictMap(name)
             out   == Upsert(db, df, table, cc, now, fault)
             up    == [op |-> "upsert", df |-> df, table |-> table, cc |-> cc,
                       pre |-> db.target[table], raised |-> out.raised,
                       ret |-> out.ret, begun |-> out.begun, fault |-> fault]
             st    == Append(steps, IF out.raised THEN "upsert raised"
                                                   ELSE "upsert returned")
         IN  IF out.raised
             THEN ExceptBranch(loader, name, StoreError, out.db, runs, st, up, log_fails)
             ELSE IF LogRunRaises(log_fails)
             THEN ExceptBranch(loader, name, StoreError, out.db, runs,
                               Append(st, "log_run"), up, log_fails)
             ELSE [returned |-> TRUE,
                   result |-> Result(name, "success", out.ret, NoError),
                   db |-> out.db,
                   runs |-> LogRun(runs,
                                   RunRecord(name, "success", Len(df.rows), out.ret,
                                             NoError),
                                   log_fails),
                   steps |-> Append(st, "log_run"),
                   up |-> up]

\* _run_extractor(extractor, loader, source_name): extract, validate, then the
\* empty branch or the load; the outcome is a returned result dict or an
\* exception that escapes.
RunExtractorBody(loader, name, ext, db, runs, now, fault, log_fails) ==
    IF ext.raised
    THEN ExceptBranch(loader, name, ExtractError, db, runs,
                      <<"extract raised">>, NoCall, log_fails)
    ELSE LET steps == <<IF Empty(ext.df) THEN "extract empty" ELSE "extract rows",
                        "validate">> IN
         IF Empty(ext.df)
         THEN EmptyBranch(loader, name, db, runs, steps, log_fails)
         ELSE LoadBranch(loader, name, ext.df, db, runs, steps, now, fault, log_fails)

----------------------------------------------------------------------------
(* run_extraction.run *)

SourceOptions == {"None", "all", "unknown"} \cup Sources

\* Rows an earlier run left in every target table.
SeedTable == {[k |-> 1, v |-> 2]}

LoaderIdle ==
    /\ batch = NoBatch
    /\ lpc = "idle"

Init ==
    /\ \E seeded \in BOOLEAN :
          target = [t \in Tables |-> IF seeded THEN SeedTable ELSE {}]
    /\ staging = {}
    /\ pipeline_runs = <<>>
    /\ clock = 0
    /\ last = NoCall
    /\ calls = <<>>
    /\ LoaderIdle
    /\ ExtractIdle
    /\ pc = "start"
    /\ dry_run \in BOOLEAN
    /\ source \in SourceOptions
    /\ extractors_to_run = <<>>
    /\ idx = 0
    /\ results = <<>>
    /\ exit_code = "running"
    /\ srcState = [s \in Sources |-> "pending"]
    /\ trace = [s \in Sources |-> <<>>]

AllSelected == [i \in 1..NumSources |-> AllSources[i]]

\* Lines 98-115: the loader, the extractor dict, the --source filter.
SelectSources ==
    /\ pc = "start"
    /\ IF source \notin {"None", "all"}
       THEN IF source \notin Sources
            THEN /\ exit_code' = "1"
                 /\ pc' = "done"
                 /\ UNCHANGED extractors_to_run
            ELSE /\ extractors_to_run' = <<source>>
                 /\ pc' = "loop"
                 /\ UNCHANGED exit_code
       ELSE /\ extractors_to_run' = AllSelected
            /\ pc' = "loop"
            /\ UNCHANGED exit_code
    /\ UNCHANGED <<target, staging, pipeline_runs, clock, last, calls, loaderVars,
                   extractVars, dry_run, source, idx, results, srcState, trace>>

\* Lines 118-120: the loop takes the next source and enters _run_extractor.
LoopNext ==
    /\ pc = "loop"
    /\ idx < Len(extractors_to_run)
    /\ idx' = idx + 1
    /\ srcState' = [srcState EXCEPT ![extractors_to_run[idx + 1]] = "extracting"]
    /\ pc' = "in_extractor"
    /\ last' = NoCall
    /\ UNCHANGED <<target, staging, pipeline_runs, clock, calls, loaderVars,
                   extractVars, dry_run, source, extractors_to_run, results,
                   exit_code, trace>>

\* Audit inserts that failed so far: log_run calls made minus rows written.
LogRunCalls(steps) == Len(SelectSeq(steps, LAMBDA c : c = "log_run"))

RECURSIVE SumOver(_, _)
SumOver(f, S) ==
    IF S = {} THEN 0
    ELSE LET x == CHOOSE y \in S : TRUE IN f[x] + SumOver(f, S \ {x})

LostRecords ==
    SumOver([s \in Sources |-> LogRunCalls(trace[s])], Sources) - Len(pipeline_runs)

TerminalState(status) ==
    CASE status = "success" -> "loaded"
      [] status = "empty"   -> "empty"
      [] status = "failed"  -> "failed"

\* Lines 120-121 with the body of _run_extractor: the result is appended; an
\* exception that escapes _run_extractor escapes run() too and the process
\* ends with a traceback and exit code 1.
RunExtractor(ext, fault, log_fails) ==
    /\ pc = "in_extractor"
    /\ log_fails => LostRecords < MaxLogFaults
    /\ LET name == extractors_to_run[idx]
           out  == RunExtractorBody(IF dry_run THEN "None" ELSE "PostgresLoader",
                                    name, ext, Store, pipeline_runs, clock, fault,
                                    log_fails)
       IN  /\ target' = out.db.target
           /\ staging' = out.db.staging
           /\ pipeline_runs' = out.runs
           /\ last' = out.up
           /\ trace' = [trace EXCEPT ![name] = @ \o out.steps]
           /\ IF out.returned
              THEN /\ results' = Append(results, out.result)
                   /\ srcState' = [srcState EXCEPT ![name] = TerminalState(out.result.status)]
                   /\ pc' = "loop"
                   /\ UNCHANGED exit_code
              ELSE /\ pc' = "crashed"
                   /\ exit_code' = "1"
                   /\ UNCHANGED <<results, srcState>>
    /\ UNCHANGED <<clock, calls, loaderVars, extractVars, dry_run, source,
                   extractors_to_run, idx>>

Failed(rs) == SelectSeq(rs, LAMBDA r : r.status = "failed")

\* Lines 123-138: the summary table, then Exit(1) if any result failed.
Summary ==
    /\ pc = "loop"
    /\ idx = Len(extractors_to_run)
    /\ exit_code' = IF Failed(results) # <<>> THEN "1" ELSE "0"
    /\ pc' = "done"
    /\ last' = NoCall
    /\ UNCHANGED <<target, staging, pipeline_runs, clock, calls, loaderVars,
                   extractVars, dry_run, source, extractors_to_run, idx, results,
                   srcState, trace>>

Next ==
    \/ SelectSources
    \/ LoopNext
    \/ \E ext \in ExtractOutcomes, fault \in Faults, log_fails \in BOOLEAN :
          RunExtractor(ext, fault, log_fails)
    \/ Summary

Spec == Init /\ [][Next]_vars

----------------------------------------------------------------------------
(* Claims about the orchestrator, checked under Spec *)

Selected == SeqSet(extractors_to_run)

RunEnded == pc \in {"done", "crashed"}

Count(steps, labels) == Len(SelectSeq(steps, LAMBDA c : c \in labels))

ExtractSteps == {"extract raised", "extract empty", "extract rows"}

LoaderSteps == {"upsert raised", "upsert returned", "log_run"}

EntriesFor(s) == {i \in DOMAIN results : results[i].source = s}

\* C3: upsert is atomic with respect to failure. When upsert raises, at
\* whichever step (begin, staging write, merge, staging drop, commit), the
\* target table holds exactly the rows it held before the call, the exception
\* reaches _run_extractor, and the orchestrator reports that source as failed
\* with the store's error.
UpsertFailureAtomic ==
    (last.op = "upsert" /\ last.raised) =>
        /\ target[last.table] = last.pre
        /\ pc = "loop"
        /\ srcState[extractors_to_run[idx]] = "failed"
        /\ results # <<>>
        /\ results[Len(results)] =
               Result(extractors_to_run[idx], "failed", 0, StoreError)
        /\ TargetTable(extractors_to_run[idx]) = last.table

\* C3 witness: the commit failed, after the merge had rewritten a table that
\* held rows, and the call raised.
UpsertRaisedAtCommit ==
    /\ last.op = "upsert"
    /\ last.raised
    /\ last.fault = "commit"
    /\ last.pre # {}
    /\ last.df.rows[1] \notin last.pre

\* C6: one source's failure never aborts its siblings. When the run has
\* ended, every selected source was extracted exactly once and the results
\* list holds exactly one entry for it.
EverySourceRunOnce ==
    RunEnded =>
        /\ Len(results) = Len(extractors_to_run)
        /\ \A s \in Selected :
              /\ Count(trace[s], ExtractSteps) = 1
              /\ Cardinality(EntriesFor(s)) = 1
              /\ srcState[s] \in {"loaded", "empty", "failed"}

\* The same with a loader (no --dry-run): it holds.
EverySourceRunOnceWithLoader == ~dry_run => EverySourceRunOnce

\* C7: the exit code is non-zero if and only if some source ended failed, for
\* every run that selected its sources (an unknown --source exits 1 before any
\* source is selected).
ExitCodeIffFailed ==
    (exit_code # "running" /\ extractors_to_run # <<>>) =>
        (exit_code = "1" <=> \E s \in Selected : srcState[s] = "failed")

\* The same with a loader (no --dry-run): it holds.
ExitCodeIffFailedWithLoader == ~dry_run => ExitCodeIffFailed

\* C8: every selected source goes pending -> extracting -> one terminal state:
\* empty iff extract() returned zero rows, and then upsert was never called;
\* loaded iff extract() returned rows and upsert returned; failed iff
\* extract() or upsert() raised; a source is extracting only while
\* _run_extractor runs, and when the run has ended none is left without a
\* terminal state.
OneTerminalState ==
    \A s \in Selected :
        /\ srcState[s] = "pending" => trace[s] = <<>> /\ ~RunEnded
        /\ srcState[s] = "extracting" => pc = "in_extractor" /\ s = extractors_to_run[idx]
        /\ srcState[s] = "empty" <=>
               Count(trace[s], {"extract empty"}) = 1
        /\ srcState[s] = "empty" => Count(trace[s], {"upsert raised", "upsert returned"}) = 0
        /\ srcState[s] = "loaded" <=>
               /\ Count(trace[s], {"extract rows"}) = 1
               /\ Count(trace[s], {"upsert returned"}) = 1
        /\ srcState[s] = "failed" <=>
               Count(trace[s], {"extract raised", "upsert raised"}) = 1

\* The same with a loader (no --dry-run): it holds.
OneTerminalStateWithLoader == ~dry_run => OneTerminalState

\* C9: in a dry run every selected source is extracted and validated, no
\* loader operation is invoked, and the run ends with exit code 0 when no
\* extraction raised and non-zero otherwise.
DryRunCompletes ==
    (dry_run /\ RunEnded) =>
        /\ \A s \in Selected :
              /\ Count(trace[s], ExtractSteps) = 1
              /\ Count(trace[s], LoaderSteps) = 0
        /\ exit_code = "0" <=>
              \A s \in Selected : Count(trace[s], {"extract raised"}) = 0

\* C10: for every source attempt, whatever its outcome, log_run is called
\* exactly once, as the last thing the attempt does.
LogRunExactlyOnce ==
    \A s \in Selected :
        trace[s] # <<>> =>
            /\ Count(trace[s], {"log_run"}) = 1
            /\ trace[s][Len(trace[s])] = "log_run"

\* The same with a loader (no --dry-run): it holds.
LogRunExactlyOnceWithLoader == ~dry_run => LogRunExactlyOnce

\* What _run_extractor hands back to run(), and the store it leaves.
Outcome(out) ==
    [returned |-> out.returned,
     result   |-> IF out.returned THEN out.result ELSE Result("", "raised", 0, NoError),
     target   |-> out.db.target,
     staging  |-> out.db.staging]

\* C11: a failure to write the audit record never changes the outcome of the
\* extraction it describes. Whenever _run_extractor is about to run, for every
\* outcome of extract() and every fault of the store during upsert, the result
\* it returns and the tables it leaves are the same with the audit insert
\* failing as with it succeeding; and log_run never raises: every attempt that
\* called log_run has handed its result to run().
AuditFailureHarmless ==
    /\ pc = "in_extractor" =>
          \A ext \in ExtractOutcomes, fault \in Faults :
              LET loader == IF dry_run THEN "None" ELSE "PostgresLoader"
                  name   == extractors_to_run[idx]
                  body(log_fails) ==
                      RunExtractorBody(loader, name, ext, Store, pipeline_runs,
                                       clock, fault, log_fails)
              IN  Outcome(body(TRUE)) = Outcome(body(FALSE))
    /\ \A s \in Selected :
          Count(trace[s], {"log_run"}) > 0 =>
              /\ Count(trace[s], {"log_run"}) = 1
              /\ Cardinality(EntriesFor(s)) = 1
              /\ pc # "crashed"

\* C11 witness: the audit insert of a successful load failed: the row is
\* missing from raw._pipeline_runs, the rows are in the target table and the
\* result says success.
AuditInsertFailed ==
    /\ last.op = "upsert"
    /\ ~last.raised
    /\ target[last.table] # last.pre
    /\ trace[extractors_to_run[idx]][Len(trace[extractors_to_run[idx]])] = "log_run"
    /\ \A i \in DOMAIN pipeline_runs :
          pipeline_runs[i].extractor_name # extractors_to_run[idx]
    /\ results[Len(results)] = Result(extractors_to_run[idx], "success", last.ret, NoError)

----------------------------------------------------------------------------
(* SpecConc: two upsert calls that overlap in time *)

Callers == {"a", "b"}

\* Caller a loads value 1 and caller b value 2, into keys 1..n.
CallerFrame(c, n) ==
    [columns |-> <<"k", "v">>,
     rows |-> [i \in 1..n |-> [k |-> i, v |-> IF c = "a" THEN 1 ELSE 2]]]

NotCalled == [pc |-> "idle"]

InTransaction(c) == calls[c].pc \in {"staged", "merged", "dropped"}

InProgress(c) == calls[c].pc \in {"named", "staged", "merged", "dropped"}

InitConc ==
    /\ target = [t \in Tables |-> {}]
    /\ staging = {}
    /\ pipeline_runs = <<>>
    /\ clock = 0
    /\ last = NoCall
    /\ calls = [c \in Callers |-> NotCalled]
    /\ LoaderIdle
    /\ OrchIdle
    /\ ExtractIdle

concFrame == <<pipeline_runs, last, loaderVars, orchVars, extractVars>>

Tick ==
    /\ clock < MaxClock
    /\ clock' = clock + 1
    /\ UNCHANGED <<target, staging, calls, concFrame>>

\* Lines 59-64: the frame is not empty; full_table and temp_table are named
\* from the table and the current second.
EnterUpsert(c, table, df) ==
    /\ calls[c].pc = "idle"
    /\ ~Empty(df)
    /\ calls' = [calls EXCEPT ![c] =
                   [pc |-> "named", table |-> table, df |-> df,
                    cc |-> <<"k">>, temp |-> TempTable(table, clock)]]
    /\ UNCHANGED <<target, staging, clock, concFrame>>

\* Lines 66-76: the transaction begins and to_sql creates the staging table.
\* A staging table of the same name that another open transaction created
\* makes CREATE TABLE wait until that transaction ends.
StageStep(c) ==
    /\ calls[c].pc = "named"
    /\ \A d \in Callers \ {c} : InTransaction(d) => calls[d].temp # calls[c].temp
    /\ staging' = ToSql(Store, calls[c].temp, calls[c].df).staging
    /\ calls' = [calls EXCEPT ![c].pc = "staged"]
    /\ UNCHANGED <<target, clock, concFrame>>

\* Lines 78-97: the merge statement. It waits for another open transaction
\* that has written a row of the same table with a key of this batch.
MergeStep(c) ==
    /\ calls[c].pc = "staged"
    /\ \A d \in Callers \ {c} :
          (calls[d].pc \in {"merged", "dropped"} /\ calls[d].table = calls[c].table)
              => KeysOf(calls[d].df.rows) \cap KeysOf(calls[c].df.rows) = {}
    /\ Merge(target[calls[c].table], Staged(Store, calls[c].temp), calls[c].cc).ok
    /\ calls' = [calls EXCEPT ![c].pc = "merged"]
    /\ UNCHANGED <<target, staging, clock, concFrame>>

\* Line 100: DROP TABLE IF EXISTS on the staging table.
DropStep(c) ==
    /\ calls[c].pc = "merged"
    /\ staging' = DropTemp(Store, calls[c].temp).staging
    /\ calls' = [calls EXCEPT ![c].pc = "dropped"]
    /\ UNCHANGED <<target, clock, concFrame>>

\* The with block ends: the transaction commits, its merged rows become the
\* target's rows, and upsert returns len(df).
CommitStep(c) ==
    /\ calls[c].pc = "dropped"
    /\ target' = [target EXCEPT ![calls[c].table] =
                    Merge(@, [columns |-> calls[c].df.columns, rows |-> calls[c].df.rows],
                          calls[c].cc).table]
    /\ calls' = [calls EXCEPT ![c].pc = "returned"]
    /\ UNCHANGED <<staging, clock, concFrame>>

\* An exception inside the with block: the transaction is rolled back, its
\* staging table with it, and upsert raises.
FailStep(c) ==
    /\ InTransaction(c)
    /\ staging' = DropTemp(Store, calls[c].temp).staging
    /\ calls' = [calls EXCEPT ![c].pc = "raised"]
    /\ UNCHANGED <<target, clock, concFrame>>

NextConc ==
    \/ Tick
    \/ \E c \in Callers, t \in Tables, n \in 1..MaxExtract :
          EnterUpsert(c, t, CallerFrame(c, n))
    \/ \E c \in Callers : StageStep(c)
    \/ \E c \in Callers : MergeStep(c)
    \/ \E c \in Callers : DropStep(c)
    \/ \E c \in Callers : CommitStep(c)
    \/ \E c \in Callers : FailStep(c)

SpecConc == InitConc /\ [][NextConc]_vars

----------------------------------------------------------------------------
(* Claims about overlapping upsert calls, checked under SpecConc *)

\* C5: two upsert calls that overlap in time never use the same staging-table
\* name, whether they load different tables or the same one.
StagingNamesDistinct ==
    \A c, d \in Callers :
        (c # d /\ InProgress(c) /\ InProgress(d)) => calls[c].temp # calls[d].temp

\* The part that holds: overlapping calls share a staging name only when they
\* load the same table within the same second.
StagingNamesDistinctAcrossTables ==
    \A c, d \in Callers :
        (c # d /\ InProgress(c) /\ InProgress(d) /\ calls[c].table # calls[d].table)
            => calls[c].temp # calls[d].temp

----------------------------------------------------------------------------
(* BaseExtractor._make_request: one HTTP GET under the tenacity retry *)

\* How one underlying call (lines 74-84) can end.
CallKinds == {"ok", "ConnectionError", "Timeout", "HTTP 5xx", "HTTP 429",
              "HTTP 4xx", "non-JSON"}

\* The exception one underlying call raises: session.get raises
\* requests.ConnectionError or requests.Timeout, raise_for_status raises
\* requests.HTTPError for every 4xx and 5xx status, response.json raises a
\* JSON decode error; both except clauses log and re-raise.
Raised(kind) ==
    CASE kind = "ConnectionError" -> "ConnectionError"
      [] kind = "Timeout"         -> "Timeout"
      [] kind = "non-JSON"        -> "JSONDecodeError"
      [] OTHER                    -> "HTTPError"

RetryAny(exc) == TRUE

\* retry=retry_if_exception_type((requests.Timeout, requests.ConnectionError))
RetryIf(exc) == exc \in {"Timeout", "ConnectionError"}

\* stop=stop_after_attempt(settings.max_retries)
StopAfterAttempt(attempt_number, max_retries) == attempt_number >= max_retries

Min(a, b) == IF a < b THEN a ELSE b

Max(a, b) == IF a > b THEN a ELSE b

\* wait=wait_exponential(multiplier=1, min=2, max=30), in seconds: the wait
\* after attempt number n is 1 * 2^(n-1) clamped to [2, 30].
WaitExponential(attempt_number) == Max(2, Min(1 * 2 ^ (attempt_number - 1), 30))

\* reraise=True: when the attempts are used up the last exception itself is
\* raised, not tenacity's RetryError.
Reraise == TRUE

\* One pass of the retry loop: the underlying call, then return, raise, or
\* sleep for the next attempt.
AttemptStep(f) ==
    LET n    == f.attempts + 1
        kind == f.script[n]
        exc  == [class |-> Raised(kind), kind |-> kind, attempt |-> n]
    IN  IF kind = "ok"
        THEN [f EXCEPT !.pc = "returned", !.attempts = n]
        ELSE IF ~RetryIf(exc.class)
        THEN [f EXCEPT !.pc = "raised", !.attempts = n, !.error = exc]
        ELSE IF StopAfterAttempt(n, f.max_retries)
        THEN [f EXCEPT !.pc = "raised", !.attempts = n,
                       !.error = IF Reraise THEN exc
                                 ELSE [class |-> "RetryError", kind |-> kind,
                                       attempt |-> n]]
        ELSE [f EXCEPT !.attempts = n,
                       !.waits = Append(@, WaitExponential(n))]

NoException == [class |-> "None", kind |-> "ok", attempt |-> 0]

\* A fetch about to start: what each underlying call would answer, and the
\* configured settings.max_retries.
InitFetch ==
    /\ target = [t \in Tables |-> {}]
    /\ staging = {}
    /\ pipeline_runs = <<>>
    /\ clock = 0
    /\ last = NoCall
    /\ calls = <<>>
    /\ LoaderIdle
    /\ OrchIdle
    /\ limiter = NoLimiter
    /\ pager = NoPager
    /\ dedupe = NoDedupe
    /\ extraction = NoExtract
    /\ \E script \in [1..MaxAttempts -> CallKinds], max_retries \in 1..MaxAttempts :
          fetch = [pc |-> "calling", script |-> script, max_retries |-> max_retries,
                   attempts |-> 0, waits |-> <<>>, error |-> NoException]

fetchFrame == <<target, staging, pipeline_runs, clock, last, calls, loaderVars,
                orchVars, limiter, pager, dedupe, extraction>>

Attempt ==
    /\ fetch.pc = "calling"
    /\ fetch' = AttemptStep(fetch)
    /\ UNCHANGED fetchFrame

NextFetch == Attempt

SpecFetch == InitFetch /\ [][NextFetch]_vars

----------------------------------------------------------------------------
(* Claims about _make_request, checked under SpecFetch *)

FetchEnded == fetch.pc \in {"returned", "raised"}

\* The failures the design calls transient, and the others.
Transient == {"ConnectionError", "Timeout", "HTTP 5xx", "HTTP 429"}

NonTransient == {"HTTP 4xx", "non-JSON"}

\* The failures the retry predicate of the code takes.
ConnectionFailures == {"ConnectionError", "Timeout"}

\* Attempts until the first success, MaxAttempts + 1 when there is none.
FirstOk(script) ==
    IF \E i \in DOMAIN script : script[i] = "ok"
    THEN CHOOSE i \in DOMAIN script :
             script[i] = "ok" /\ \A j \in 1..(i - 1) : script[j] # "ok"
    ELSE MaxAttempts + 1

\* Every failure the fetch can meet before its first success is in S.
FailsOnlyWith(S) ==
    \A i \in DOMAIN fetch.script :
        i < FirstOk(fetch.script) => fetch.script[i] \in S

NonDecreasing(w) == \A i \in 1..(Len(w) - 1) : w[i] <= w[i + 1]

AttemptsAsCapped(S) ==
    (FetchEnded /\ FailsOnlyWith(S)) =>
        /\ fetch.attempts = Min(fetch.max_retries, FirstOk(fetch.script))
        /\ Len(fetch.waits) = fetch.attempts - 1
        /\ NonDecreasing(fetch.waits)
        /\ FirstOk(fetch.script) <= fetch.max_retries => fetch.pc = "returned"

\* C12: when the underlying call fails only with transient failures
\* (connection failure, timeout, 5xx, 429), the number of underlying calls is
\* min(max attempts, attempts until the first success), the waits between
\* attempts are non-decreasing, and a success within the cap is returned.
AttemptsMinOfCapAndFirstSuccess == AttemptsAsCapped(Transient)

\* The same for connection failures and timeouts only: it holds.
AttemptsMinForConnectionFailures == AttemptsAsCapped(ConnectionFailures)

\* C13: every transient failure class is retried: a fetch whose first
\* underlying call ends in a connection failure, a timeout, a 5xx or a 429,
\* with a cap above one, makes a second call.
TransientRetried ==
    (FetchEnded /\ fetch.script[1] \in Transient /\ fetch.max_retries > 1) =>
        fetch.attempts > 1

\* The same for connection failures and timeouts only: it holds.
ConnectionFailuresRetried ==
    (FetchEnded /\ fetch.script[1] \in ConnectionFailures /\ fetch.max_retries > 1) =>
        fetch.attempts > 1

\* C14: a non-transient failure (4xx other than 429, non-JSON body) is never
\* retried: no underlying call follows it, the fetch raises that failure, and
\* when it is the first call's failure exactly one call was made.
NonTransientNotRetried ==
    /\ \A i \in 1..fetch.attempts :
          fetch.script[i] \in NonTransient =>
              /\ i = fetch.attempts
              /\ fetch.pc = "raised"
              /\ fetch.error = [class |-> Raised(fetch.script[i]),
                                kind |-> fetch.script[i], attempt |-> i]
    /\ (FetchEnded /\ fetch.script[1] \in NonTransient) =>
          fetch.attempts = 1 /\ fetch.waits = <<>>

\* C14 witness: a 4xx on the first call, with attempts left and a success
\* waiting behind it, was raised after one call.
ClientErrorRaisedAtOnce ==
    /\ fetch.pc = "raised"
    /\ fetch.script[1] = "HTTP 4xx"
    /\ fetch.script[2] = "ok"
    /\ fetch.max_retries = MaxAttempts
    /\ fetch.attempts = 1

ExhaustedReraises(S) ==
    (FetchEnded /\ \A i \in 1..fetch.max_retries : fetch.script[i] \in S) =>
        /\ fetch.pc = "raised"
        /\ fetch.attempts = fetch.max_retries
        /\ fetch.error = [class |-> Raised(fetch.script[fetch.max_retries]),
                          kind |-> fetch.script[fetch.max_retries],
                          attempt |-> fetch.max_retries]

\* C15: when every attempt up to the cap fails transiently, the fetch raises
\* the failure of the last attempt, in its own kind (no retry-library
\* wrapper), after exactly max-attempts underlying calls.
ExhaustedReraisesLast == ExhaustedReraises(Transient)

\* The same for connection failures and timeouts only: it holds.
ExhaustedReraisesLastConnectionFailure == ExhaustedReraises(ConnectionFailures)

----------------------------------------------------------------------------
(* BaseExtractor._throttle: the rate limiter of one extractor, one task *)

NoSleep(secs, oversleep) == 0

\* time.sleep(secs) suspends the caller for secs or longer.
Sleep(secs, oversleep) == secs + oversleep

\* _throttle at monotonic time l.now: sleep out the rest of min_interval, then
\* stamp _last_request_time with the time read after the sleep and return.
ThrottleStep(l, oversleep) ==
    LET elapsed == l.now - l.last_request_time
        slept   == IF elapsed < l.min_interval
                   THEN Sleep(l.min_interval - elapsed, oversleep)
                   ELSE 0
        t       == l.now + slept
    IN  [l EXCEPT !.now = t,
                  !.last_request_time = t,
                  !.slept = slept,
                  !.calls = @ + 1,
                  !.returns = Append(@, t)]

\* An extractor just built: _last_request_time = 0.0, min_interval = 1 /
\* rate_limit_rps ticks, and a monotonic clock that started at any value.
InitThrottle ==
    /\ target = [t \in Tables |-> {}]
    /\ staging = {}
    /\ pipeline_runs = <<>>
    /\ clock = 0
    /\ last = NoCall
    /\ calls = <<>>
    /\ LoaderIdle
    /\ OrchIdle
    /\ fetch = NoFetch
    /\ pager = NoPager
    /\ dedupe = NoDedupe
    /\ extraction = NoExtract
    /\ \E min_interval \in 1..MaxInterval, now \in 0..MaxInterval :
          limiter = [pc |-> "ready", min_interval |-> min_interval,
                     last_request_time |-> 0, now |-> now, slept |-> 0,
                     calls |-> 0, returns |-> <<>>]

throttleFrame == <<target, staging, pipeline_runs, clock, last, calls, loaderVars,
                   orchVars, fetch, pager, dedupe, extraction>>

\* Time passes between two calls of the task.
Elapse(d) ==
    /\ limiter.pc = "ready"
    /\ limiter.now + d <= MaxTime
    /\ limiter' = [limiter EXCEPT !.now = @ + d]
    /\ UNCHANGED throttleFrame

Throttle(oversleep) ==
    /\ limiter.pc = "ready"
    /\ ThrottleStep(limiter, oversleep).now <= MaxTime
    /\ limiter' = ThrottleStep(limiter, oversleep)
    /\ UNCHANGED throttleFrame

NextThrottle ==
    \/ \E d \in 1..MaxInterval : Elapse(d)
    \/ \E oversleep \in 0..MaxOversleep : Throttle(oversleep)

SpecThrottle == InitThrottle /\ [][NextThrottle]_vars

----------------------------------------------------------------------------
(* Claims about _throttle, checked under SpecThrottle *)

\* C16: for one limiter used by one task, any two consecutive returns of
\* _throttle are at least min_interval = 1/R apart, whenever the calls are
\* made; and every call returns (it delays, it never rejects).
ThrottleSpacing ==
    /\ \A i \in 1..(Len(limiter.returns) - 1) :
          limiter.returns[i + 1] - limiter.returns[i] >= limiter.min_interval
    /\ Len(limiter.returns) = limiter.calls

\* C16 witness: a second call made before the interval was over slept and
\* returned.
ThrottleSlept ==
    /\ Len(limiter.returns) = 2
    /\ limiter.slept > 0
    /\ limiter.min_interval = MaxInterval

----------------------------------------------------------------------------
(* EtherscanExtractor: paginated extraction, parsing, extract() *)

PROTOCOLS == <<"uniswap_v3", "aave_v3">>

NumProtocols == Len(PROTOCOLS)

\* tx_hash of the i-th transaction of protocol pr's contract.
TxHash(pr, i) == (pr - 1) * MaxTxs + i

\* The transactions the API lists for one contract address: ascending by
\* block, several possibly in one block. The list is the API's answer, not
\* the extractor's: it holds the contract's own transactions or ones the API
\* also lists for the first contract.
Upstreams(pr) ==
    UNION {{[i \in 1..n |-> [hash |-> TxHash(owner, i), blockNumber |-> bs[i]]] :
              bs \in {b \in [1..n -> Blocks] :
                         \A i \in 1..(n - 1) : b[i] <= b[i + 1]},
              owner \in {1, pr}} :
           n \in 0..MaxTxs}

\* The txlist endpoint for params startblock, page, offset, sort=asc: the
\* page-th slice of offset transactions from startblock on; an empty slice is
\* answered with status "0" and message "No transactions found".
ApiResponse(upstream, startblock, page, offset) ==
    LET filtered == SelectSeq(upstream, LAMBDA tx : tx.blockNumber >= startblock)
        lo       == (page - 1) * offset + 1
        hi       == Min(page * offset, Len(filtered))
        result   == IF lo > hi THEN <<>> ELSE SubSeq(filtered, lo, hi)
    IN  IF result = <<>>
        THEN [raised |-> FALSE, status |-> "0",
              message |-> "No transactions found", result |-> <<>>]
        ELSE [raised |-> FALSE, status |-> "1", message |-> "OK", result |-> result]

\* What else one request can meet: _make_request raises, the API answers
\* with an error status and a message as its result, or with an empty list.
PageFaults == {"none", "raise", "NOTOK", "empty list"}

PageResponse(fault, upstream, startblock, page, offset) ==
    CASE fault = "raise" ->
             [raised |-> TRUE, status |-> "", message |-> "", result |-> <<>>]
      [] fault = "NOTOK" ->
             [raised |-> FALSE, status |-> "0", message |-> "NOTOK",
              result |-> <<[error |-> "Max rate limit reached"]>>]
      [] fault = "empty list" ->
             [raised |-> FALSE, status |-> "1", message |-> "OK", result |-> <<>>]
      [] OTHER -> ApiResponse(upstream, startblock, page, offset)

NeverShort(page_results, page_size) == FALSE

\* "if len(results) < page_size: break"
ShortPage(page_results, page_size) == Len(page_results) < page_size

SameBlock(page_results) == page_results[Len(page_results)].blockNumber

\* "current_block = int(results[-1]["blockNumber"]) + 1"
NextBlock(page_results) == page_results[Len(page_results)].blockNumber + 1

ContinueOnException(all_transactions, current_block, page) ==
    [continue |-> TRUE, outcome |-> "raised", all_transactions |-> all_transactions,
     current_block |-> current_block, page |-> page]

\* "except Exception as e: ... break"
BreakOnException(all_transactions, current_block, page) ==
    [continue |-> FALSE, outcome |-> "raised", all_transactions |-> all_transactions,
     current_block |-> current_block, page |-> page]

\* One pass of "while True" in extract_transactions on response data: what
\* the loop does next, and the list it has collected.
PageStep(data, all_transactions, current_block, page, page_size) ==
    LET stop(outcome, all) ==
            [continue |-> FALSE, outcome |-> outcome, all_transactions |-> all,
             current_block |-> current_block, page |-> page]
    IN  IF data.raised THEN BreakOnException(all_transactions, current_block, page)
        ELSE IF data.status # "1"
        THEN IF data.message = "No transactions found" \/ data.result = <<>>
             THEN stop("none found", all_transactions)
             ELSE stop("error status", all_transactions)
        ELSE IF data.result = <<>> THEN stop("empty list", all_transactions)
        ELSE LET all == all_transactions \o data.result IN
             IF ShortPage(data.result, page_size) THEN stop("items", all)
             ELSE [continue |-> TRUE, outcome |-> "items", all_transactions |-> all,
                   current_block |-> NextBlock(data.result),
                   page |-> page + 1]

\* df.drop_duplicates(subset=[...]) with pandas' default keep="first": a row
\* stays iff no earlier row has the same values in the subset columns.
RECURSIVE DropDuplicates(_, _)
DropDuplicates(rows, subset) ==
    IF rows = <<>> THEN <<>>
    ELSE LET n      == Len(rows)
             front  == DropDuplicates(SubSeq(rows, 1, n - 1), subset)
             isDup  == \E j \in 1..(n - 1) :
                           \A c \in subset : rows[j][c] = rows[n][c]
         IN  IF isDup THEN front ELSE Append(front, rows[n])

\* _parse_transactions: one row per raw transaction (k the tx_hash, v the
\* block number), then drop_duplicates(subset=["tx_hash"]).
ParseTransactions(raw_transactions) ==
    DropDuplicates([i \in 1..Len(raw_transactions) |->
                       [k |-> raw_transactions[i].hash,
                        v |-> raw_transactions[i].blockNumber]],
                   {"k"})

\* Lines 130-133: what extract_transactions returns.
ReturnedRows(all_transactions) ==
    IF all_transactions = <<>> THEN <<>> ELSE ParseTransactions(all_transactions)

AsFrame(rows) == [columns |-> <<"k", "v">>, rows |-> rows]

NoRuns == [pr \in 1..NumProtocols |-> <<>>]

\* An EtherscanExtractor whose extract() has just entered extract_transactions
\* for the first protocol, and the orchestrator waiting for its batch.
InitPages ==
    /\ target = [t \in Tables |-> {}]
    /\ staging = {}
    /\ pipeline_runs = <<>>
    /\ clock = 0
    /\ last = NoCall
    /\ calls = <<>>
    /\ LoaderIdle
    /\ pc = "in_extractor"
    /\ dry_run \in BOOLEAN
    /\ source = "etherscan"
    /\ extractors_to_run = <<"etherscan">>
    /\ idx = 1
    /\ results = <<>>
    /\ exit_code = "running"
    /\ srcState = [s \in Sources |-> IF s = "etherscan" THEN "extracting" ELSE "pending"]
    /\ trace = [s \in Sources |-> <<>>]
    /\ fetch = NoFetch
    /\ limiter = NoLimiter
    /\ dedupe = NoDedupe
    /\ extraction = NoExtract
    /\ \E page_size \in 1..MaxPageSize,
          upstream \in {u \in [1..NumProtocols -> UNION {Upstreams(pr) : pr \in 1..NumProtocols}] :
                           \A pr \in 1..NumProtocols : u[pr] \in Upstreams(pr)} :
          pager = [pc |-> "paging", page_size |-> page_size, upstream |-> upstream,
                   proto |-> 1, current_block |-> 0, page |-> 1,
                   all_transactions |-> <<>>, log |-> NoRuns, collected |-> NoRuns,
                   combined |-> <<>>]

pagesFrame == <<clock, calls, loaderVars, dry_run, source, extractors_to_run, idx,
                fetch, limiter, dedupe, extraction>>

\* One request of extract_transactions and what the loop does with the
\* response; when the loop breaks, the function returns its rows to
\* extract(), which keeps a non-empty frame and goes on to the next protocol
\* or returns the concatenation.
FetchPage(fault) ==
    /\ pager.pc = "paging"
    /\ LET pr    == pager.proto
           data  == PageResponse(fault, pager.upstream[pr], pager.current_block,
                                 pager.page, pager.page_size)
           step  == PageStep(data, pager.all_transactions, pager.current_block,
                             pager.page, pager.page_size)
           entry == [startblock |-> pager.current_block, page |-> pager.page,
                     outcome |-> step.outcome,
                     items |-> IF step.outcome = "items" THEN data.result ELSE <<>>]
           logged == [pager EXCEPT !.log[pr] = Append(@, entry)]
           df    == ReturnedRows(step.all_transactions)
       IN  pager' =
             IF step.continue
             THEN [logged EXCEPT !.all_transactions = step.all_transactions,
                                 !.current_block = step.current_block,
                                 !.page = step.page]
             ELSE [logged EXCEPT !.collected[pr] = step.all_transactions,
                                 !.combined = @ \o df,
                                 !.all_transactions = <<>>,
                                 !.current_block = 0,
                                 !.page = 1,
                                 !.proto = IF pr < NumProtocols THEN pr + 1 ELSE pr,
                                 !.pc = IF pr < NumProtocols THEN "paging"
                                                             ELSE "extracted"]
    /\ UNCHANGED <<target, staging, pipeline_runs, last, results, exit_code,
                   srcState, trace, pc, pagesFrame>>

\* _run_extractor on the batch extract() returned.
LoadPages(fault, log_fails) ==
    /\ pager.pc = "extracted"
    /\ LET ext == [raised |-> FALSE, df |-> AsFrame(pager.combined)]
           out == RunExtractorBody(IF dry_run THEN "None" ELSE "PostgresLoader",
                                   "etherscan", ext, Store, pipeline_runs, clock,
                                   fault, log_fails)
       IN  /\ target' = out.db.target
           /\ staging' = out.db.staging
           /\ pipeline_runs' = out.runs
           /\ last' = out.up
           /\ trace' = [trace EXCEPT !["etherscan"] = @ \o out.steps]
           /\ IF out.returned
              THEN /\ results' = Append(results, out.result)
                   /\ srcState' = [srcState EXCEPT
                                      !["etherscan"] = TerminalState(out.result.status)]
                   /\ pc' = "loop"
                   /\ pager' = [pager EXCEPT !.pc = "done"]
                   /\ UNCHANGED exit_code
              ELSE /\ pc' = "crashed"
                   /\ exit_code' = "1"
                   /\ pager' = [pager EXCEPT !.pc = "crashed"]
                   /\ UNCHANGED <<results, srcState>>
    /\ UNCHANGED pagesFrame

NextPages ==
    \/ \E fault \in PageFaults : FetchPage(fault)
    \/ \E fault \in Faults, log_fails \in BOOLEAN : LoadPages(fault, log_fails)

SpecPages == InitPages /\ [][NextPages]_vars

----------------------------------------------------------------------------
(* Claims about paginated extraction, checked under SpecPages *)

\* extract_transactions for protocol pr has returned.
Paginated(pr) == pr < pager.proto \/ pager.pc # "paging"

ExtractReturned == pager.pc # "paging"

Orchestrated == pager.pc \in {"done", "crashed"}

IsSuffix(t, u) ==
    /\ Len(t) <= Len(u)
    /\ SubSeq(u, Len(u) - Len(t) + 1, Len(u)) = t

InBatch(tx) == \E i \in DOMAIN pager.combined : pager.combined[i].k = tx.hash

\* C17: if a page holds fewer items than the requested page size, the page is
\* kept (its items end the collected list and are in the batch extract()
\* builds) and it is the last request of that extraction.
ShortPageStops ==
    \A pr \in 1..NumProtocols : \A i \in DOMAIN pager.log[pr] :
        LET e == pager.log[pr][i] IN
        (e.outcome = "items" /\ Len(e.items) < pager.page_size) =>
            /\ i = Len(pager.log[pr])
            /\ Paginated(pr)
            /\ IsSuffix(e.items, pager.collected[pr])
            /\ \A j \in DOMAIN e.items : InBatch(e.items[j])

\* C17 witness: a first page of one transaction, asked with a larger page
\* size, ended its extraction.
ShortPageKept ==
    \E pr \in 1..NumProtocols :
        /\ Paginated(pr)
        /\ Len(pager.log[pr]) = 1
        /\ Len(pager.log[pr][1].items) = 1
        /\ pager.page_size > 1
        /\ Len(pager.upstream[pr]) = 1

EmptyFirstPage(pr) ==
    /\ pager.log[pr] # <<>>
    /\ pager.log[pr][1].outcome \in {"none found", "empty list"}

HardError ==
    \E pr \in 1..NumProtocols : \E i \in DOMAIN pager.log[pr] :
        pager.log[pr][i].outcome \in {"raised", "error status"}

\* C19: a hard error on any page (the fetch raises, or an error status other
\* than "no results") surfaces: extract() raises and the orchestrator records
\* the source as failed; the pages fetched before it are not loaded and
\* reported as a success.
HardErrorFails ==
    (HardError /\ pager.pc = "done") =>
        /\ results = <<Result("etherscan", "failed", 0, ExtractError)>>
        /\ srcState["etherscan"] = "failed"
        /\ \A t \in Tables : target[t] = {}

----------------------------------------------------------------------------
(* Source-level de-duplication: the drop_duplicates call that ends          *)
(* _parse_transactions and extract_tvl                                      *)

\* Rows a source has normalized, in input order: k stands for the conflict
\* key columns (tx_hash; protocol_slug, chain, date), v for the others.
InitDedupe ==
    /\ target = [t \in Tables |-> {}]
    /\ staging = {}
    /\ pipeline_runs = <<>>
    /\ clock = 0
    /\ last = NoCall
    /\ calls = <<>>
    /\ LoaderIdle
    /\ OrchIdle
    /\ fetch = NoFetch
    /\ limiter = NoLimiter
    /\ pager = NoPager
    /\ extraction = NoExtract
    /\ \E rows \in SeqsUpTo([k : Keys, v : Vals], MaxBatch) :
          dedupe = [pc |-> "rows", rows |-> rows, df |-> <<>>]

dedupeFrame == <<target, staging, pipeline_runs, clock, last, calls, loaderVars,
                 orchVars, fetch, limiter, pager, extraction>>

\* df = pd.DataFrame(rows); df = df.drop_duplicates(subset=[key columns])
Normalize ==
    /\ dedupe.pc = "rows"
    /\ dedupe' = [dedupe EXCEPT !.pc = "deduped",
                                !.df = DropDuplicates(dedupe.rows, {"k"})]
    /\ UNCHANGED dedupeFrame

NextDedupe == Normalize

SpecDedupe == InitDedupe /\ [][NextDedupe]_vars

----------------------------------------------------------------------------
(* Claims about de-duplication, checked under SpecDedupe *)

Occurrences(rows, key) == {i \in DOMAIN rows : rows[i].k = key}

SetMax(S) == CHOOSE x \in S : \A y \in S : y <= x

SetMin(S) == CHOOSE x \in S : \A y \in S : x <= y

\* C20: after de-duplication the batch holds exactly one row per conflict key
\* of the input, and it is the last-occurring row of that key.
DedupeKeepsLast ==
    dedupe.pc = "deduped" =>
        \A key \in KeysOf(dedupe.rows) :
            /\ Cardinality(Occurrences(dedupe.df, key)) = 1
            /\ \E i \in DOMAIN dedupe.df :
                  dedupe.df[i] = dedupe.rows[SetMax(Occurrences(dedupe.rows, key))]

\* What the code does: one row per key, the first-occurring one. It holds.
DedupeKeepsFirst ==
    dedupe.pc = "deduped" =>
        /\ KeysOf(dedupe.df) = KeysOf(dedupe.rows)
        /\ \A key \in KeysOf(dedupe.rows) :
              /\ Cardinality(Occurrences(dedupe.df, key)) = 1
              /\ \E i \in DOMAIN dedupe.df :
                    dedupe.df[i] = dedupe.rows[SetMin(Occurrences(dedupe.rows, key))]

----------------------------------------------------------------------------
(* Claims about the batch extract() returns, checked under SpecPages *)

\* C21: the batch extract() returns holds no two rows with the same
\* conflict key (tx_hash), the frames of the protocols concatenated.
BatchKeysUnique == ExtractReturned => UniqueKeys(pager.combined)

\* The frame of each protocol alone has unique keys: it holds.
ProtocolFrameKeysUnique ==
    \A pr \in 1..NumProtocols :
        Paginated(pr) => UniqueKeys(ReturnedRows(pager.collected[pr]))

----------------------------------------------------------------------------
(* CoinGecko, DeFiLlama, Dune, LiFi, Portfolio: extract() *)

\* What one HTTP exchange of a source gives back: the request raised, or a
\* list of items (price points, TVL entries, label rows), id the date or the
\* wallet address and value the number that goes with it.
UpstreamAnswers ==
    {[raised |-> TRUE, items |-> <<>>]}
        \cup {[raised |-> FALSE, items |-> it] :
                 it \in SeqsUpTo([id : Ids, value : Vals], MaxPoints)}

\* What an extract() (or one of its per-item helpers) ends with: a frame's
\* rows or an exception; synthetic is the set of keys whose row was generated
\* rather than received, requests the number of HTTP requests issued.
Returns(rows, synthetic, requests) ==
    [raised |-> FALSE, error |-> NoError, rows |-> rows,
     synthetic |-> synthetic, requests |-> requests]

Raises(error, requests) ==
    [raised |-> TRUE, error |-> error, rows |-> <<>>,
     synthetic |-> {}, requests |-> requests]

\* df.drop_duplicates(subset=[...], keep="last"): a row stays iff no later row
\* has the same values in the subset columns.
RECURSIVE DropDuplicatesLast(_, _)
DropDuplicatesLast(rows, subset) ==
    IF rows = <<>> THEN <<>>
    ELSE LET rest  == DropDuplicatesLast(Tail(rows), subset)
             isDup == \E j \in 2..Len(rows) :
                          \A c \in subset : rows[j][c] = rows[1][c]
         IN  IF isDup THEN rest ELSE <<rows[1]>> \o rest

\* settings.tracked_tokens, two of them: one the mock covers, one it does not.
TrackedTokens == <<"ethereum", "uniswap">>

MockedTokens == {"ethereum", "wrapped-ether"}

\* pd.date_range(start="2021-01-01", end="2024-01-01"), as day numbers; the
\* upstream's days (Ids) may fall inside the range or after it.
MockDates == <<1, 2>>

MockPrice == 2000

MockRows(token_id) ==
    [i \in 1..Len(MockDates) |-> [k |-> <<token_id, MockDates[i]>>, v |-> MockPrice]]

\* "except Exception as e: ... return pd.DataFrame()" of extract_price_history.
PriceFetchPropagates == Raises(ExtractError, 1)

PriceFetchFailed == Returns(<<>>, {}, 1)

\* extract_price_history(token_id): rows of the answer's prices, the date
\* column converted (a KeyError on the frame of no rows), drop_duplicates,
\* then for the mocked tokens the mock rows in front and drop_duplicates
\* keeping the last.
ExtractPriceHistory(token_id, answer) ==
    IF answer.raised THEN PriceFetchFailed
    ELSE LET prices == answer.items
             rows   == [i \in 1..Len(prices) |->
                           [k |-> <<token_id, prices[i].id>>, v |-> prices[i].value]]
         IN  IF rows = <<>> THEN Raises("KeyError: 'date'", 1)
             ELSE LET df == DropDuplicates(rows, {"k"}) IN
                  IF token_id \in MockedTokens
                  THEN Returns(DropDuplicatesLast(MockRows(token_id) \o df, {"k"}),
                                KeysOf(MockRows(token_id)) \ KeysOf(df), 1)
                  ELSE Returns(df, {}, 1)

\* CoinGeckoExtractor.extract: the non-empty frames of the tokens, concatenated;
\* an exception of extract_price_history leaves extract() at once.
RECURSIVE CoinGeckoExtractFrom(_, _, _)
CoinGeckoExtractFrom(i, answers, all_dfs) ==
    IF i > Len(TrackedTokens) THEN all_dfs
    ELSE LET df == ExtractPriceHistory(TrackedTokens[i], answers[i]) IN
         IF df.raised THEN Raises(df.error, all_dfs.requests + df.requests)
         ELSE CoinGeckoExtractFrom(i + 1, answers,
                  Returns(all_dfs.rows \o df.rows,
                           all_dfs.synthetic \cup df.synthetic,
                           all_dfs.requests + df.requests))

CoinGeckoExtract(answers) == CoinGeckoExtractFrom(1, answers, Returns(<<>>, {}, 0))

\* DeFiLlamaExtractor.PROTOCOLS, by slug.
LlamaProtocols == <<"uniswap-v3", "aave-v3">>

\* "except Exception as e: ... return []" of _fetch_tvl_history.
TvlFetchFailed == Returns(<<>>, {}, 1)

\* _fetch_tvl_history(slug): the tvl list of the answer.
FetchTvlHistory(answer) ==
    IF answer.raised THEN TvlFetchFailed ELSE Returns(answer.items, {}, 1)

RECURSIVE TvlRowsFrom(_, _, _)
TvlRowsFrom(i, answers, acc) ==
    IF i > Len(LlamaProtocols) THEN acc
    ELSE LET history == FetchTvlHistory(answers[i]) IN
         IF history.raised THEN Raises(history.error, acc.requests + 1)
         ELSE TvlRowsFrom(i + 1, answers,
                  Returns(acc.rows \o
                               [j \in 1..Len(history.rows) |->
                                   [k |-> <<LlamaProtocols[i], history.rows[j].id>>,
                                    v |-> history.rows[j].value]],
                           {}, acc.requests + 1))

\* extract_tvl / DeFiLlamaExtractor.extract: no rows gives the empty frame,
\* else the rows de-duplicated on (protocol_slug, chain, date).
ExtractTvl(answers) ==
    LET got == TvlRowsFrom(1, answers, Returns(<<>>, {}, 0)) IN
    IF got.raised \/ got.rows = <<>> THEN got
    ELSE Returns(DropDuplicates(got.rows, {"k"}), {}, got.requests)

\* The wallet-seeding query "SELECT DISTINCT from_address ...": it raises or
\* lists distinct addresses, none included.
Seedings ==
    {[raised |-> TRUE, wallets |-> <<>>]}
        \cup {[raised |-> FALSE, wallets |-> w] :
                 w \in {q \in SeqsUpTo(Ids, Cardinality(Ids)) :
                           \A i, j \in DOMAIN q : q[i] = q[j] => i = j}}

\* The generated addresses of the except branch (range(1, 101), range(500)),
\* two of each.
FallbackWallets == <<101, 102>>

DuneFallbackWallets == <<201, 202>>

\* The draws of the random module for one extract(), one per wallet.
Randoms == [1..Len(FallbackWallets) -> Vals]

SeedWallets(seeding, fallback) ==
    IF seeding.raised THEN fallback ELSE seeding.wallets

GeneratedRows(wallets, rand) ==
    [i \in 1..Len(wallets) |-> [k |-> wallets[i], v |-> rand[i]]]

\* LiFiExtractor.extract: a generated row per wallet; the conversion of
\* last_bridge_date is a KeyError on the frame of no rows.
LiFiExtract(seeding, rand) ==
    LET rows == GeneratedRows(SeedWallets(seeding, FallbackWallets), rand) IN
    IF rows = <<>> THEN Raises("KeyError: 'last_bridge_date'", 0)
    ELSE Returns(rows, KeysOf(rows), 0)

\* PortfolioExtractor.extract: a generated row per wallet.
PortfolioExtract(seeding, rand) ==
    LET rows == GeneratedRows(SeedWallets(seeding, FallbackWallets), rand) IN
    Returns(rows, KeysOf(rows), 0)

\* _get_mock_labels: a generated label row per wallet.
GetMockLabels(seeding, rand, requests) ==
    LET rows == GeneratedRows(SeedWallets(seeding, DuneFallbackWallets), rand) IN
    Returns(rows, KeysOf(rows), requests)

\* DuneExtractor.QUERIES, by position.
NumQueries == 2

\* One query of extract(): _execute_query is one request, and a started
\* execution is polled (one request more); a failed execution (answer raised)
\* and a failed poll (no items) both give no rows.
RECURSIVE DuneRowsFrom(_, _, _)
DuneRowsFrom(i, answers, acc) ==
    IF i > NumQueries THEN acc
    ELSE DuneRowsFrom(i + 1, answers,
             IF answers[i].raised
             THEN Returns(acc.rows, {}, acc.requests + 1)
             ELSE Returns(acc.rows \o
                               [j \in 1..Len(answers[i].items) |->
                                   [k |-> answers[i].items[j].id,
                                    v |-> answers[i].items[j].value]],
                           {}, acc.requests + 2))

NoKeyStillQueries(api_key) == FALSE

\* "if not self.api_key: return self._get_mock_labels()"
NoKeyNoRequests(api_key) == ~api_key

NoResultsNoFallback(all_rows) == FALSE

\* "if not all_rows: ... return self._get_mock_labels()"
NoResultsFallsBack(all_rows) == all_rows = <<>>

\* DuneExtractor.extract
DuneExtract(api_key, answers, seeding, rand) ==
    IF NoKeyNoRequests(api_key) THEN GetMockLabels(seeding, rand, 0)
    ELSE LET got == DuneRowsFrom(1, answers, Returns(<<>>, {}, 0)) IN
         IF NoResultsFallsBack(got.rows)
         THEN GetMockLabels(seeding, rand, got.requests)
         ELSE Returns(DropDuplicates(got.rows, {"k"}), {}, got.requests)

\* Whether DuneExtract reaches _get_mock_labels.
DuneUsesMock(api_key, answers) ==
    \/ ~api_key
    \/ DuneRowsFrom(1, answers, Returns(<<>>, {}, 0)).rows = <<>>

----------------------------------------------------------------------------
(* SpecSources: one source's extract(), then _run_extractor on its batch *)

ExtractorSources == {"defillama", "dune", "coingecko", "lifi", "portfolio"}

AllTables == {TargetTable(AllSources[i]) : i \in DOMAIN AllSources}

NoAnswers == <<>>

NoSeeding == [raised |-> FALSE, wallets |-> <<>>]

NoRandoms == <<>>

\* A run with a loader, about to call extract() on one source.
InitSources ==
    /\ target = [t \in AllTables |-> {}]
    /\ staging = {}
    /\ pipeline_runs = <<>>
    /\ clock = 0
    /\ last = NoCall
    /\ calls = <<>>
    /\ LoaderIdle
    /\ OrchIdle
    /\ fetch = NoFetch
    /\ limiter = NoLimiter
    /\ pager = NoPager
    /\ dedupe = NoDedupe
    /\ \E s \in ExtractorSources : extraction = [pc |-> "ready", source |-> s]

sourcesFrame == <<clock, calls, loaderVars, pc, dry_run, source, extractors_to_run,
                  idx, exit_code, srcState, trace, fetch, limiter, pager, dedupe>>

\* The state after extract(): the inputs it consumed and its outcome.
Extracted(s, api_key, answers, seeding, rand, out) ==
    [pc |-> "extracted", source |-> s, api_key |-> api_key, answers |-> answers,
     seeding |-> seeding, rand |-> rand, out |-> out]

storeFrame == <<target, staging, pipeline_runs, last, results>>

ExtractCoinGecko ==
    /\ extraction.pc = "ready"
    /\ extraction.source = "coingecko"
    /\ \E answers \in [1..Len(TrackedTokens) -> UpstreamAnswers] :
          extraction' = Extracted("coingecko", TRUE, answers, NoSeeding, NoRandoms,
                                  CoinGeckoExtract(answers))
    /\ UNCHANGED <<storeFrame, sourcesFrame>>

ExtractDeFiLlama ==
    /\ extraction.pc = "ready"
    /\ extraction.source = "defillama"
    /\ \E answers \in [1..Len(LlamaProtocols) -> UpstreamAnswers] :
          extraction' = Extracted("defillama", TRUE, answers, NoSeeding, NoRandoms,
                                  ExtractTvl(answers))
    /\ UNCHANGED <<storeFrame, sourcesFrame>>

\* The inputs extract() did not consult are recorded as none.
ExtractDune ==
    /\ extraction.pc = "ready"
    /\ extraction.source = "dune"
    /\ \E api_key \in BOOLEAN, answers \in [1..NumQueries -> UpstreamAnswers],
          seeding \in Seedings, rand \in Randoms :
          LET mock == DuneUsesMock(api_key, answers) IN
          extraction' = Extracted("dune", api_key,
                                  IF api_key THEN answers ELSE NoAnswers,
                                  IF mock THEN seeding ELSE NoSeeding,
                                  IF mock THEN rand ELSE NoRandoms,
                                  DuneExtract(api_key, answers, seeding, rand))
    /\ UNCHANGED <<storeFrame, sourcesFrame>>

ExtractLiFi ==
    /\ extraction.pc = "ready"
    /\ extraction.source = "lifi"
    /\ \E seeding \in Seedings, rand \in Randoms :
          extraction' = Extracted("lifi", TRUE, NoAnswers, seeding, rand,
                                  LiFiExtract(seeding, rand))
    /\ UNCHANGED <<storeFrame, sourcesFrame>>

ExtractPortfolio ==
    /\ extraction.pc = "ready"
    /\ extraction.source = "portfolio"
    /\ \E seeding \in Seedings, rand \in Randoms :
          extraction' = Extracted("portfolio", TRUE, NoAnswers, seeding, rand,
                                  PortfolioExtract(seeding, rand))
    /\ UNCHANGED <<storeFrame, sourcesFrame>>

\* _run_extractor on what extract() returned or raised.
LoadExtracted(fault, log_fails) ==
    /\ extraction.pc = "extracted"
    /\ LET got == [raised |-> extraction.out.raised,
                   df |-> AsFrame(extraction.out.rows)]
           out == RunExtractorBody("PostgresLoader", extraction.source, got, Store,
                                   pipeline_runs, clock, fault, log_fails)
       IN  /\ target' = out.db.target
           /\ staging' = out.db.staging
           /\ pipeline_runs' = out.runs
           /\ last' = out.up
           /\ results' = IF out.returned THEN Append(results, out.result) ELSE results
           /\ extraction' = [extraction EXCEPT
                                !.pc = IF out.returned THEN "done" ELSE "crashed"]
    /\ UNCHANGED sourcesFrame

NextSources ==
    \/ ExtractCoinGecko
    \/ ExtractDeFiLlama
    \/ ExtractDune
    \/ ExtractLiFi
    \/ ExtractPortfolio
    \/ \E fault \in Faults, log_fails \in BOOLEAN : LoadExtracted(fault, log_fails)

SpecSources == InitSources /\ [][NextSources]_vars

----------------------------------------------------------------------------
(* Claims about the sources' extract(), checked under SpecSources *)

ExtractEnded == extraction.pc \in {"extracted", "done", "crashed"}

Ran(s) == ExtractEnded /\ extraction.source = s

EveryAnswer(P(_)) == \A i \in DOMAIN extraction.answers : P(extraction.answers[i])

AnswerFailed(a) == a.raised

AnsweredNothing(a) == ~a.raised /\ a.items = <<>>

NoWallets == ~extraction.seeding.raised /\ extraction.seeding.wallets = <<>>

\* The upstream of the source answered, with nothing to make rows of: every
\* API answer is an empty list, or the seeding query (for Dune on its mock
\* path) listed no wallet.
ZeroUsableRows ==
    \/ (Ran("coingecko") \/ Ran("defillama")) /\ EveryAnswer(AnsweredNothing)
    \/ (Ran("lifi") \/ Ran("portfolio")) /\ NoWallets
    \/ /\ Ran("dune")
       /\ DuneUsesMock(extraction.api_key, extraction.answers)
       /\ NoWallets

RecordedAs(status) ==
    extraction.pc = "done" =>
        /\ results # <<>>
        /\ results[Len(results)].source = extraction.source
        /\ results[Len(results)].status = status

\* C22: when the upstream succeeds with zero usable rows, extract() returns an
\* empty batch without raising, and the orchestrator records the source as
\* empty.
ZeroRowsGiveEmptyBatch ==
    ZeroUsableRows =>
        /\ ~extraction.out.raised
        /\ extraction.out.rows = <<>>
        /\ RecordedAs("empty")

\* The same for the sources that test for "no rows" before building the
\* frame, or build it without touching a column: it holds.
ZeroRowsGiveEmptyBatchWhereGuarded ==
    (ZeroUsableRows /\ extraction.source \in {"defillama", "dune", "portfolio"}) =>
        /\ ~extraction.out.raised
        /\ extraction.out.rows = <<>>
        /\ RecordedAs("empty")

\* The per-item helper of the two API sources, on the answer of item i.
ItemResult(i) ==
    IF extraction.source = "coingecko"
    THEN ExtractPriceHistory(TrackedTokens[i], extraction.answers[i])
    ELSE FetchTvlHistory(extraction.answers[i])

\* C23: a failed fetch for a CoinGecko token or a DeFiLlama protocol gives an
\* empty result of the helper, the fetch's exception never leaves extract(),
\* and when every fetch failed extract() returns the empty frame.
FetchFailureGivesEmpty ==
    (Ran("coingecko") \/ Ran("defillama")) =>
        /\ \A i \in DOMAIN extraction.answers :
              extraction.answers[i].raised =>
                  ~ItemResult(i).raised /\ ItemResult(i).rows = <<>>
        /\ extraction.out.raised => extraction.out.error # ExtractError
        /\ EveryAnswer(AnswerFailed) =>
              ~extraction.out.raised /\ extraction.out.rows = <<>>

FetchFailedForEveryToken ==
    /\ Ran("coingecko")
    /\ EveryAnswer(AnswerFailed)
    /\ extraction.out.rows = <<>>
    /\ extraction.out.requests = Len(TrackedTokens)

\* The dates of a price list, each once, in the order of first appearance.
RECURSIVE DistinctDates(_)
DistinctDates(prices) ==
    IF prices = <<>> THEN <<>>
    ELSE LET n     == Len(prices)
             front == DistinctDates(SubSeq(prices, 1, n - 1))
         IN  IF \E j \in 1..(n - 1) : prices[j].id = prices[n].id
             THEN front
             ELSE Append(front, prices[n].id)

\* Token i was reached: no token before it ended extract() with an exception.
TokenReached(i) ==
    /\ Ran("coingecko")
    /\ i \in DOMAIN extraction.answers
    /\ \A j \in 1..(i - 1) : ~ItemResult(j).raised

OneRowPerUpstreamDate(token_id, prices, df) ==
    /\ ~df.raised
    /\ [j \in 1..Len(df.rows) |-> df.rows[j].k] =
           [j \in 1..Len(DistinctDates(prices)) |-> <<token_id, DistinctDates(prices)[j]>>]
    /\ prices # <<>> => df.rows[1].v = prices[1].value

\* C24: for every token and market_chart answer, extract_price_history
\* returns exactly one row per distinct upstream date and no other row, in
\* upstream order, the first row with the first upstream price.
PriceRowsAreUpstreamDates ==
    \A i \in 1..Len(TrackedTokens) :
        (TokenReached(i) /\ ~extraction.answers[i].raised) =>
            OneRowPerUpstreamDate(TrackedTokens[i], extraction.answers[i].items,
                                  ItemResult(i))

\* The same for the tokens the mock leaves alone, on an answer with at least
\* one price: it holds.
PriceRowsAreUpstreamDatesUnmocked ==
    \A i \in 1..Len(TrackedTokens) :
        (/\ TokenReached(i)
         /\ ~extraction.answers[i].raised
         /\ extraction.answers[i].items # <<>>
         /\ TrackedTokens[i] \notin MockedTokens) =>
            OneRowPerUpstreamDate(TrackedTokens[i], extraction.answers[i].items,
                                  ItemResult(i))

\* A batch with generated rows in it was handed to the load.
SyntheticLoaded ==
    /\ extraction.pc = "done"
    /\ extraction.out.synthetic # {}

ProvenanceColumn == last.op = "upsert" /\ InSeq("provenance", last.df.columns)

RunMarked ==
    /\ pipeline_runs # <<>>
    /\ "provenance" \in DOMAIN pipeline_runs[Len(pipeline_runs)]

\* C25: a batch holding synthetic rows carries a provenance column, or the
\* run record of the attempt carries a marker that tells it from a run on
\* real upstream data.
SyntheticRowsMarked == SyntheticLoaded => (ProvenanceColumn \/ RunMarked)

Generated(fallback) ==
    /\ extraction.out.rows =
           GeneratedRows(SeedWallets(extraction.seeding, fallback), extraction.rand)
    /\ extraction.out.synthetic = KeysOf(extraction.out.rows)

\* C26: Dune without a key returns the mock labels and issues no request;
\* Dune with a key whose queries all give no rows returns the mock labels;
\* LiFi, Portfolio and the Dune mock use the generated addresses when the
\* seeding query raised; in none of these cases extract() raises.
FallbacksNeverRaise ==
    /\ (Ran("dune") /\ ~extraction.api_key) =>
          /\ ~extraction.out.raised
          /\ extraction.out.requests = 0
          /\ Generated(DuneFallbackWallets)
    /\ (Ran("dune") /\ extraction.api_key
            /\ \A i \in DOMAIN extraction.answers :
                  extraction.answers[i].raised \/ extraction.answers[i].items = <<>>) =>
          /\ ~extraction.out.raised
          /\ Generated(DuneFallbackWallets)
    /\ (Ran("dune") /\ DuneUsesMock(extraction.api_key, extraction.answers)
            /\ extraction.seeding.raised) =>
          /\ ~extraction.out.raised
          /\ KeysOf(extraction.out.rows) = SeqSet(DuneFallbackWallets)
    /\ ((Ran("lifi") \/ Ran("portfolio")) /\ extraction.seeding.raised) =>
          /\ ~extraction.out.raised
          /\ KeysOf(extraction.out.rows) = SeqSet(FallbackWallets)

DuneFellBackTwice ==
    /\ Ran("dune")
    /\ extraction.api_key
    /\ extraction.answers[1].raised
    /\ AnsweredNothing(extraction.answers[2])
    /\ extraction.seeding.raised
    /\ KeysOf(extraction.out.rows) = SeqSet(DuneFallbackWallets)
    /\ extraction.out.requests = 3

----------------------------------------------------------------------------
(* Claims about error messages, checked under Spec *)

\* The message of the exception that made source s fail: extract()'s, or the
\* store's when upsert raised.
FailureMessage(s) ==
    IF InSeq("extract raised", trace[s]) THEN ExtractError ELSE StoreError

RecordsOf(s) == {i \in DOMAIN pipeline_runs : pipeline_runs[i].extractor_name = s}

ResultCarries(s, status, message) ==
    /\ EntriesFor(s) # {}
    /\ \A i \in EntriesFor(s) :
          results[i].status = status /\ results[i].error = message

NoErrorMessage(s) ==
    /\ \A i \in EntriesFor(s) : results[i].error = NoError
    /\ \A j \in RecordsOf(s) : pipeline_runs[j].error_message = NoError

----------------------------------------------------------------------------
(* Claims about the pagination cursor, checked under SpecPages *)

Hashes(txs) == {txs[i].hash : i \in DOMAIN txs}

\* No request of protocol pr's pagination failed: each was answered by the
\* API with items or with "No transactions found".
NoRequestFailed(pr) ==
    \A i \in DOMAIN pager.log[pr] :
        pager.log[pr][i].outcome \in {"items", "none found"}

\* C28: when no request fails, the transactions extract_transactions
\* collects are the full upstream list (start_block 0, end_block beyond every
\* block): advancing start block and page together skips none.
PaginationLosesNothing ==
    \A pr \in 1..NumProtocols :
        (Paginated(pr) /\ NoRequestFailed(pr)) =>
            Hashes(pager.collected[pr]) = Hashes(pager.upstream[pr])

\* A list shorter than the page size is collected whole by the single
\* request: it holds.
SinglePageLosesNothing ==
    \A pr \in 1..NumProtocols :
        (/\ Paginated(pr)
         /\ NoRequestFailed(pr)
         /\ Len(pager.upstream[pr]) < pager.page_size) =>
            pager.collected[pr] = pager.upstream[pr]

\* C29: within one pagination each request's start block is strictly
\* greater than that of the request before it, and no start block is
\* requested twice.
CursorStrictlyIncreasing ==
    \A pr \in 1..NumProtocols :
        /\ \A i \in 1..(Len(pager.log[pr]) - 1) :
              pager.log[pr][i + 1].startblock > pager.log[pr][i].startblock
        /\ \A i, j \in DOMAIN pager.log[pr] :
              pager.log[pr][i].startblock = pager.log[pr][j].startblock => i = j

\* Two transactions of one block, a page size of one: the second request
\* starts past that block.
CursorAdvancedPastSharedBlock ==
    \E pr \in 1..NumProtocols :
        /\ Len(pager.upstream[pr]) >= 2
        /\ pager.upstream[pr][1].blockNumber = pager.upstream[pr][2].blockNumber
        /\ Len(pager.log[pr]) >= 2
        /\ pager.log[pr][2].startblock = pager.upstream[pr][1].blockNumber + 1

\* The requests one pagination can issue: every request that does not end it
\* took page_size transactions, none of them taken before.
MaxRequests(pr) == (Len(pager.upstream[pr]) \div pager.page_size) + 1

\* C30: pagination terminates. Whatever the responses, a pagination issues
\* no more than MaxRequests requests; while one is under way its next
\* request can be issued, and the request that ends it returns the rows to
\* extract().
PaginationTerminates ==
    /\ \A pr \in 1..NumProtocols :
          /\ Len(pager.log[pr]) <= MaxRequests(pr)
          /\ (pager.log[pr] # <<>> /\ ~Paginated(pr)) =>
                /\ pager.log[pr][Len(pager.log[pr])].outcome = "items"
                /\ Len(pager.log[pr][Len(pager.log[pr])].items) = pager.page_size
    /\ pager.pc = "paging" => ENABLED (\E fault \in PageFaults : FetchPage(fault))

\* A full page, then a request that raised: the pagination ended there.
FullPageThenRaised ==
    \E pr \in 1..NumProtocols :
        /\ Paginated(pr)
        /\ Len(pager.log[pr]) = 2
        /\ pager.log[pr][1].outcome = "items"
        /\ pager.log[pr][2].outcome = "raised"
        /\ Len(pager.log[pr]) = MaxRequests(pr)

\* SpecPages with the loop and the load taken whenever they can be: under it
\* extract() eventually returns.
SpecPagesFair == InitPages /\ [][NextPages]_vars /\ WF_vars(NextPages)

ExtractEventuallyReturns == <>ExtractReturned

----------------------------------------------------------------------------
(* Claims about the backoff schedule, checked under SpecFetch *)

\* C31: the delay before retry k is min(max delay, min delay * 2^(k-1)) with
\* min 2 and max 30 seconds: 2, 4, 8, 16, 30, 30, ...
BackoffDoublesFromMin ==
    \A k \in DOMAIN fetch.waits : fetch.waits[k] = Min(30, 2 * 2 ^ (k - 1))

\* What the code waits: 2^(k-1) seconds raised to the minimum and cut at the
\* maximum, 2, 2, 4, 8, 16, 30, ... It holds.
BackoffClampsPowerOfTwo ==
    \A k \in DOMAIN fetch.waits :
        /\ fetch.waits[k] = Max(2, Min(30, 2 ^ (k - 1)))
        /\ fetch.waits[k] \in 2..30

----------------------------------------------------------------------------
(* SpecRequest: _make_request with its _throttle, under the retry *)

ThrottledFirstOnly(attempt_number) == attempt_number = 1

\* "self._throttle()" is the first statement of the decorated function, so
\* it runs in every attempt the retry makes.
ThrottledAttempts(attempt_number) == TRUE

\* One attempt at limiter time l.now (seconds): the throttle, the underlying
\* call answering kind, and tenacity's sleep when a retry follows.
RequestStep(f, l, kind, oversleep) ==
    LET n       == f.attempts + 1
        acquire == ThrottledAttempts(n)
        l1      == IF acquire THEN ThrottleStep(l, oversleep) ELSE l
        f0      == [f EXCEPT !.script = Append(@, kind),
                             !.events = @ \o (IF acquire THEN <<"acquire">> ELSE <<>>)
                                          \o <<"call">>,
                             !.times = Append(@, l1.now)]
        f1      == AttemptStep(f0)
        waited  == IF Len(f1.waits) > Len(f.waits) THEN f1.waits[Len(f1.waits)] ELSE 0
    IN  [fetch |-> f1, limiter |-> [l1 EXCEPT !.now = @ + waited]]

\* An extractor just built and its first _make_request about to start.
InitRequest ==
    /\ target = [t \in Tables |-> {}]
    /\ staging = {}
    /\ pipeline_runs = <<>>
    /\ clock = 0
    /\ last = NoCall
    /\ calls = <<>>
    /\ LoaderIdle
    /\ OrchIdle
    /\ pager = NoPager
    /\ dedupe = NoDedupe
    /\ extraction = NoExtract
    /\ \E max_retries \in 1..MaxAttempts :
          fetch = [pc |-> "calling", script |-> <<>>, max_retries |-> max_retries,
                   attempts |-> 0, waits |-> <<>>, error |-> NoException,
                   events |-> <<>>, times |-> <<>>]
    /\ \E min_interval \in 1..MaxInterval, now \in 0..MaxInterval :
          limiter = [pc |-> "ready", min_interval |-> min_interval,
                     last_request_time |-> 0, now |-> now, slept |-> 0,
                     calls |-> 0, returns |-> <<>>]

requestFrame == <<target, staging, pipeline_runs, clock, last, calls, loaderVars,
                  orchVars, pager, dedupe, extraction>>

RequestAttempt ==
    /\ fetch.pc = "calling"
    /\ \E kind \in CallKinds, oversleep \in 0..MaxOversleep :
          LET out == RequestStep(fetch, limiter, kind, oversleep) IN
          /\ fetch' = out.fetch
          /\ limiter' = out.limiter
    /\ UNCHANGED requestFrame

NextRequest == RequestAttempt

SpecRequest == InitRequest /\ [][NextRequest]_vars

----------------------------------------------------------------------------
(* Claims about retries and the rate limiter, checked under SpecRequest *)

\* C32: every underlying call of a fetch, the first attempt and each retry,
\* comes right after an acquire of its own on the limiter, and consecutive
\* calls of the fetch are at least min_interval = 1/rate apart.
EveryAttemptThrottled ==
    /\ limiter.calls = fetch.attempts
    /\ Len(fetch.events) = 2 * fetch.attempts
    /\ \A i \in DOMAIN fetch.events :
          fetch.events[i] = (IF i % 2 = 1 THEN "acquire" ELSE "call")
    /\ fetch.times = limiter.returns
    /\ \A i \in 1..(Len(fetch.times) - 1) :
          fetch.times[i + 1] - fetch.times[i] >= limiter.min_interval

\* A retry came after a backoff shorter than the interval, and its acquire
\* slept the rest.
RetrySleptInThrottle ==
    /\ fetch.attempts >= 2
    /\ limiter.slept > 0
    /\ fetch.waits # <<>>
    /\ fetch.waits[1] < limiter.min_interval

----------------------------------------------------------------------------
(* SpecThrottleConc: two tasks in _throttle on one extractor *)

TaskIdle == [pc |-> "idle", wake |-> 0, t |-> 0]

Busy(l, c) == l.task[c].pc \in {"sleeping", "stamping", "storing"}

\* Lines 55-58: elapsed is computed from the clock and _last_request_time;
\* the task sleeps until min_interval has passed since that timestamp, or
\* goes straight on to line 59.
ReadElapsedStep(l, c) ==
    LET elapsed == l.now - l.last_request_time IN
    [l EXCEPT !.task[c] =
                  IF elapsed < l.min_interval
                  THEN [pc |-> "sleeping", wake |-> l.now + (l.min_interval - elapsed),
                        t |-> 0]
                  ELSE [pc |-> "stamping", wake |-> l.now, t |-> 0],
              !.overlap = @ \/ \E d \in Callers \ {c} : Busy(l, d)]

\* Line 59, right-hand side: time.monotonic() is read.
ReadClockStep(l, c) == [l EXCEPT !.task[c].pc = "storing", !.task[c].t = l.now]

\* Line 59, assignment: the value read is stored and _throttle returns.
StoreStep(l, c) ==
    [l EXCEPT !.task[c].pc = "returned",
              !.last_request_time = l.task[c].t,
              !.stamps = Append(@, l.task[c].t),
              !.returns = Append(@, l.task[c].t)]

InitThrottleConc ==
    /\ target = [t \in Tables |-> {}]
    /\ staging = {}
    /\ pipeline_runs = <<>>
    /\ clock = 0
    /\ last = NoCall
    /\ calls = <<>>
    /\ LoaderIdle
    /\ OrchIdle
    /\ fetch = NoFetch
    /\ pager = NoPager
    /\ dedupe = NoDedupe
    /\ extraction = NoExtract
    /\ \E min_interval \in 1..MaxInterval, now \in 0..MaxInterval :
          limiter = [pc |-> "shared", min_interval |-> min_interval,
                     last_request_time |-> 0, now |-> now,
                     task |-> [c \in Callers |-> TaskIdle],
                     stamps |-> <<0>>, returns |-> <<>>, overlap |-> FALSE]

TimePasses ==
    /\ limiter.pc = "shared"
    /\ limiter.now < MaxTime
    /\ limiter' = [limiter EXCEPT !.now = @ + 1]
    /\ UNCHANGED throttleFrame

ReadElapsed(c) ==
    /\ limiter.pc = "shared"
    /\ limiter.task[c].pc = "idle"
    /\ limiter' = ReadElapsedStep(limiter, c)
    /\ UNCHANGED throttleFrame

\* time.sleep returns once the requested time has passed, or later.
Wake(c) ==
    /\ limiter.pc = "shared"
    /\ limiter.task[c].pc = "sleeping"
    /\ limiter.now >= limiter.task[c].wake
    /\ limiter' = [limiter EXCEPT !.task[c].pc = "stamping"]
    /\ UNCHANGED throttleFrame

ReadClock(c) ==
    /\ limiter.pc = "shared"
    /\ limiter.task[c].pc = "stamping"
    /\ limiter' = ReadClockStep(limiter, c)
    /\ UNCHANGED throttleFrame

StoreTimestamp(c) ==
    /\ limiter.pc = "shared"
    /\ limiter.task[c].pc = "storing"
    /\ limiter' = StoreStep(limiter, c)
    /\ UNCHANGED throttleFrame

NextThrottleConc ==
    \/ TimePasses
    \/ \E c \in Callers : ReadElapsed(c)
    \/ \E c \in Callers : Wake(c)
    \/ \E c \in Callers : ReadClock(c)
    \/ \E c \in Callers : StoreTimestamp(c)

SpecThrottleConc == InitThrottleConc /\ [][NextThrottleConc]_vars

----------------------------------------------------------------------------
(* Claims about concurrent acquires, checked under SpecThrottleConc *)

BothReturned == \A c \in Callers : limiter.task[c].pc = "returned"

TimestampKept ==
    /\ NonDecreasing(limiter.stamps)
    /\ limiter.returns # <<>> =>
          limiter.last_request_time = SetMax(SeqSet(limiter.returns))

ReturnsSpaced ==
    \A i, j \in DOMAIN limiter.returns :
        i < j => limiter.returns[j] - limiter.returns[i] >= limiter.min_interval

\* C33: two tasks in _throttle on one limiter, under every interleaving: the
\* timestamp never moves backwards and ends equal to the latest return time,
\* and the two returns are at least min_interval = 1/rate apart.
ConcurrentThrottleSafe == TimestampKept /\ ReturnsSpaced

\* When the second task enters after the first has returned, all of it
\* holds.
SerialThrottleSafe == ~limiter.overlap => (TimestampKept /\ ReturnsSpaced)

----------------------------------------------------------------------------
(* Claims about the staging table, checked under SpecLoader and Spec *)

\* C34: when upsert returns, its staging table no longer exists; and the
\* merge is committed only after the drop succeeded, so the target table is
\* never changed by a call while a staging table still exists.
StagingDroppedBeforeCommit ==
    /\ (Returned /\ ~Empty(last.df)) =>
          \A st \in staging : st.name # TempTable(last.table, clock)
    /\ (Called /\ target[last.table] # last.pre) => staging = {}

\* C34 witness: a keyed batch was merged into the table, the call returned
\* and left no staging table.
MergedAndStagingDropped ==
    /\ Returned
    /\ last.nth = 1
    /\ last.cc = <<"k">>
    /\ last.ret = Len(last.df.rows)
    /\ target[last.table] # last.pre
    /\ staging = {}

\* C35: when upsert fails at the merge statement, after the batch was
\* staged, the staging table with the batch's rows still exists afterwards.
MergeFailureKeepsStaging ==
    (last.op = "upsert" /\ last.raised /\ last.fault = "execute") =>
        \E st \in staging : st.rows = last.df.rows

\* What the code leaves after a failed merge: neither the batch's rows in
\* the target nor a staging table. It holds.
MergeFailureLeavesNothing ==
    (last.op = "upsert" /\ last.raised /\ last.fault = "execute") =>
        /\ staging = {}
        /\ target[last.table] = last.pre

\* C36: whenever upsert returns n > 0, every row of the batch is in the
\* target table afterwards (by key), whatever conflict_columns was, None or
\* an empty list included.
PositiveCountMeansWritten ==
    (Returned /\ last.ret > 0) =>
        KeysOf(last.df.rows) \subseteq TableKeys(target[last.table])

\* With a non-empty conflict key the merge runs and the keys are written.
\* It holds.
PositiveCountMeansWrittenKeyed ==
    (Returned /\ last.ret > 0 /\ last.cc = <<"k">>) =>
        KeysOf(last.df.rows) \subseteq TableKeys(target[last.table])

\* Without conflict columns the call reports len(df) and writes nothing.
\* It holds.
NoConflictColumnsWritesNothing ==
    (Returned /\ last.nth = 1 /\ last.cc = <<>>) =>
        /\ last.ret = Len(last.df.rows)
        /\ target[last.table] = last.pre

----------------------------------------------------------------------------
(* SpecOrder: the sources that read the store, run one after another in any
   order over the same upstream transactions *)

\* run()'s order of the sources that write or read raw.etherscan_transactions.
OrderedSources == <<"etherscan", "dune", "lifi", "portfolio">>

\* The listing of a finite set of numbers in increasing order.
Ascending(S) ==
    CHOOSE q \in [1..Cardinality(S) -> S] :
        /\ SeqSet(q) = S
        /\ \A i \in 1..(Len(q) - 1) : q[i] < q[i + 1]

\* pd.read_sql("SELECT DISTINCT from_address ... FROM raw.etherscan_transactions"):
\* the distinct values of the column "v" of the stored transactions.
SelectDistinctWallets(T) ==
    [raised |-> FALSE, wallets |-> Ascending({r.v : r \in T})]

\* extract() of a source against the store as it is now; the transactions
\* upstream are what EtherscanExtractor.extract returns, and the Dune source
\* has no API key.
ExtractAgainst(s, db, transactions, rand) ==
    LET seeding == SelectDistinctWallets(db.target[TargetTable("etherscan")]) IN
    CASE s = "etherscan" -> Returns(transactions, {}, 0)
      [] s = "dune"      -> DuneExtract(FALSE, NoAnswers, seeding, rand)
      [] s = "lifi"      -> LiFiExtract(seeding, rand)
      [] s = "portfolio" -> PortfolioExtract(seeding, rand)

\* _run_extractor of one source: its extract() against the store, then the
\* load; with it the conflict keys of the batch and the terminal status.
RunSourceOn(s, db, runs, transactions, rand) ==
    LET ext == ExtractAgainst(s, db, transactions, rand)
        out == RunExtractorBody("PostgresLoader", s,
                                [raised |-> ext.raised, df |-> AsFrame(ext.rows)],
                                db, runs, 0, "none", FALSE)
    IN  [out |-> out,
         outcome |-> [source |-> s, status |-> out.result.status,
                      keys |-> KeysOf(ext.rows)]]

\* The loop of run() over the sources in the given order: the outcome of each.
RECURSIVE OutcomesOf(_, _, _, _, _)
OutcomesOf(order, db, runs, transactions, rand) ==
    IF order = <<>> THEN {}
    ELSE LET r == RunSourceOn(Head(order), db, runs, transactions, rand) IN
         {r.outcome} \cup OutcomesOf(Tail(order), r.out.db, r.out.runs,
                                     transactions, rand)

EmptyStore == [target |-> [t \in AllTables |-> {}], staging |-> {}]

\* An empty store, and the transactions the upstream will answer with: rows
\* of distinct hashes "k" with their from_address "v".
InitOrder ==
    /\ target = EmptyStore.target
    /\ staging = EmptyStore.staging
    /\ pipeline_runs = <<>>
    /\ clock = 0
    /\ last = NoCall
    /\ calls = <<>>
    /\ LoaderIdle
    /\ OrchIdle
    /\ fetch = NoFetch
    /\ limiter = NoLimiter
    /\ pager = NoPager
    /\ dedupe = NoDedupe
    /\ \E df \in FullFrames(MaxTxs) :
          /\ UniqueKeys(df.rows)
          /\ extraction = [pc |-> "order", transactions |-> df.rows,
                           ran |-> <<>>, outcomes |-> {}]

\* One more source is run, any that has not run yet.
RunInOrder ==
    /\ extraction.pc = "order"
    /\ \E s \in SeqSet(OrderedSources) \ SeqSet(extraction.ran), rand \in Randoms :
          LET r == RunSourceOn(s, Store, pipeline_runs, extraction.transactions, rand)
          IN  /\ target' = r.out.db.target
              /\ staging' = r.out.db.staging
              /\ pipeline_runs' = r.out.runs
              /\ last' = r.out.up
              /\ results' = Append(results, r.out.result)
              /\ extraction' = [extraction EXCEPT
                                   !.ran = Append(@, s),
                                   !.outcomes = @ \cup {r.outcome}]
    /\ UNCHANGED sourcesFrame

NextOrder == RunInOrder

SpecOrder == InitOrder /\ [][NextOrder]_vars

\* The declared target tables of the sources are pairwise distinct. It holds.
TargetTablesDistinct ==
    \A i, j \in DOMAIN AllSources :
        TargetTable(AllSources[i]) = TargetTable(AllSources[j]) => i = j

\* The outcomes of run()'s own order over the same transactions.
OutcomesInRunOrder ==
    OutcomesOf(OrderedSources, EmptyStore, <<>>, extraction.transactions,
               [i \in DOMAIN FallbackWallets |-> 1])

\* C37: the target tables are pairwise distinct and, whatever the order the
\* sources run in, every source ends with the conflict-key set and terminal
\* status it has in run()'s order over the same upstream responses.
OrderIndependent ==
    /\ TargetTablesDistinct
    /\ \A o \in extraction.outcomes : o \in OutcomesInRunOrder

\* Sources run in run()'s order do end as OutcomesInRunOrder says, whatever
\* the random draws. It holds.
RunOrderReproducible ==
    (\E n \in 0..Len(OrderedSources) : extraction.ran = SubSeq(OrderedSources, 1, n))
        => \A o \in extraction.outcomes : o \in OutcomesInRunOrder

----------------------------------------------------------------------------
(* SpecPoll: DuneExtractor._poll_execution, one call *)

DefaultMaxWait == 300   \* max_wait: int = 300
PollInterval == 5       \* poll_interval = 5

QueryPending == "QUERY_STATE_EXECUTING"

FailedStates == {"QUERY_STATE_FAILED", "QUERY_STATE_CANCELLED"}

\* What one poll request meets: the request or the decoding of its body
\* raises, or the body carries a state and, when completed, the result rows.
PollAnswers ==
    {[raised |-> TRUE, state |-> "", rows |-> <<>>]}
        \cup {[raised |-> FALSE, state |-> st, rows |-> <<>>] :
                 st \in FailedStates \cup {QueryPending, ""}}
        \cup {[raised |-> FALSE, state |-> "QUERY_STATE_COMPLETED", rows |-> r] :
                 r \in {<<>>, <<[k |-> 2, v |-> 1]>>}}

\* An answer after which the loop goes on: any state but the three it tests.
StillPending(a) == ~a.raised /\ a.state \notin FailedStates \cup {"QUERY_STATE_COMPLETED"}

\* No poll made yet.
NoAnswer == [raised |-> FALSE, state |-> QueryPending, rows |-> <<>>]

WaitedStuck(waited, poll_interval) == waited

\* "waited += poll_interval"
WaitedMore(waited, poll_interval) == waited + poll_interval

PollReturns(p, rows) == [p EXCEPT !.pc = "returned", !.ret = rows]

\* One pass of "while waited < max_wait": the poll request and the branch on
\* its state; the loop left, the timeout's empty list.
PollStep(p, answer) ==
    IF ~(p.waited < p.max_wait) THEN PollReturns(p, <<>>)
    ELSE LET q == [p EXCEPT !.polls = @ + 1, !.answer = answer,
                            !.late = @ + (IF p.ended THEN 1 ELSE 0),
                            !.ended = @ \/ ~StillPending(answer)] IN
         IF answer.raised THEN PollReturns(q, <<>>)
         ELSE IF answer.state = "QUERY_STATE_COMPLETED" THEN PollReturns(q, answer.rows)
         ELSE IF answer.state \in FailedStates THEN PollReturns(q, <<>>)
         ELSE [q EXCEPT !.waited = WaitedMore(@, PollInterval)]

\* _poll_execution(execution_id) entered, as extract() calls it.
InitPoll ==
    /\ target = [t \in AllTables |-> {}]
    /\ staging = {}
    /\ pipeline_runs = <<>>
    /\ clock = 0
    /\ last = NoCall
    /\ calls = <<>>
    /\ LoaderIdle
    /\ OrchIdle
    /\ fetch = NoFetch
    /\ limiter = NoLimiter
    /\ pager = NoPager
    /\ dedupe = NoDedupe
    /\ extraction = [pc |-> "polling", waited |-> 0, max_wait |-> DefaultMaxWait,
                     polls |-> 0, answer |-> NoAnswer, ended |-> FALSE,
                     late |-> 0, ret |-> <<>>]

\* The loop condition holds: one poll request.
Poll ==
    /\ extraction.pc = "polling"
    /\ extraction.waited < extraction.max_wait
    /\ \E answer \in PollAnswers : extraction' = PollStep(extraction, answer)
    /\ UNCHANGED <<storeFrame, sourcesFrame>>

\* The loop condition fails: the warning and "return []".
PollTimesOut ==
    /\ extraction.pc = "polling"
    /\ ~(extraction.waited < extraction.max_wait)
    /\ extraction' = PollStep(extraction, CHOOSE a \in PollAnswers : TRUE)
    /\ UNCHANGED <<storeFrame, sourcesFrame>>

NextPoll ==
    \/ Poll
    \/ PollTimesOut

SpecPoll == InitPoll /\ [][NextPoll]_vars

LastAnswer == extraction.answer

\* C38: _poll_execution ends in a return, never an exception; it returns
\* the result rows on QUERY_STATE_COMPLETED, an empty list on
\* QUERY_STATE_FAILED, QUERY_STATE_CANCELLED or a poll that raised, and an
\* empty list once the state stayed pending for max_wait / poll_interval
\* polls (60); no poll follows an answer that was not pending
\* (late counts such polls).
PollingTerminates ==
    /\ extraction.pc \in {"polling", "returned"}
    /\ extraction.late = 0
    /\ extraction.polls <= DefaultMaxWait \div PollInterval
    /\ extraction.polls <= 60
    /\ extraction.pc = "polling" =>
          /\ ~extraction.ended
          /\ StillPending(LastAnswer)
          /\ ENABLED NextPoll
    /\ extraction.pc = "returned" =>
          /\ extraction.polls >= 1
          /\ extraction.ret =
                IF ~LastAnswer.raised /\ LastAnswer.state = "QUERY_STATE_COMPLETED"
                THEN LastAnswer.rows ELSE <<>>
          /\ StillPending(LastAnswer) =>
                extraction.polls * PollInterval >= extraction.max_wait

\* C38 witness: the state stayed pending for 60 polls and the call returned
\* the empty list.
PollingTimedOut ==
    /\ extraction.pc = "returned"
    /\ extraction.polls = 60
    /\ StillPending(LastAnswer)
    /\ extraction.ret = <<>>

----------------------------------------------------------------------------
(* SpecRerun: a synthetic source run twice over an unchanged wallet set *)

SyntheticSources == {"dune", "lifi", "portfolio"}

\* The etherscan table holds the wallets of an earlier load; one synthetic
\* source is about to run.
InitRerun ==
    /\ staging = {}
    /\ pipeline_runs = <<>>
    /\ clock = 0
    /\ last = NoCall
    /\ calls = <<>>
    /\ LoaderIdle
    /\ OrchIdle
    /\ fetch = NoFetch
    /\ limiter = NoLimiter
    /\ pager = NoPager
    /\ dedupe = NoDedupe
    /\ \E df \in FullFrames(MaxTxs), s \in SyntheticSources :
          /\ UniqueKeys(df.rows)
          /\ target = [t \in AllTables |->
                          IF t = TargetTable("etherscan") THEN SeqSet(df.rows) ELSE {}]
          /\ extraction = [pc |-> "rerun", source |-> s, batches |-> <<>>,
                           tables |-> <<>>]

\* The source is run, a first and a second time: extract() with the draws
\* the random module makes this time, then the load.
Rerun ==
    /\ extraction.pc = "rerun"
    /\ Len(extraction.batches) < 2
    /\ \E rand \in Randoms :
          LET r == RunSourceOn(extraction.source, Store, pipeline_runs, <<>>, rand)
              ext == ExtractAgainst(extraction.source, Store, <<>>, rand)
          IN  /\ target' = r.out.db.target
              /\ staging' = r.out.db.staging
              /\ pipeline_runs' = r.out.runs
              /\ last' = r.out.up
              /\ results' = Append(results, r.out.result)
              /\ extraction' =
                    [extraction EXCEPT
                        !.batches = Append(@, ext.rows),
                        !.tables = Append(@, r.out.db.target[TargetTable(extraction.source)])]
    /\ UNCHANGED sourcesFrame

NextRerun == Rerun

SpecRerun == InitRerun /\ [][NextRerun]_vars

RanTwice == Len(extraction.batches) = 2

\* C39: two invocations of a synthetic generator over the same wallet set
\* produce identical rows, so the second run's upsert leaves the target
\* table as the first left it.
SyntheticDeterministic ==
    RanTwice =>
        /\ extraction.batches[1] = extraction.batches[2]
        /\ extraction.tables[1] = extraction.tables[2]

\* What is the same in both runs: the wallets, hence the conflict keys of the
\* batch and of the table. It holds.
SyntheticKeysRepeat ==
    RanTwice =>
        /\ KeysOf(extraction.batches[1]) = KeysOf(extraction.batches[2])
        /\ TableKeys(extraction.tables[1]) = TableKeys(extraction.tables[2])

----------------------------------------------------------------------------
(* SpecRefresh: PostgresLoader.full_refresh, one caller, one target table *)

\* Where full_refresh can fail: engine.begin(), the TRUNCATE statement, the
\* insert of to_sql, the commit.
RefreshFaults == {"none", "begin", "execute", "to_sql", "commit"}

KeepRows(db, table) == db

\* TRUNCATE TABLE schema.table
Truncate(db, table) == [db EXCEPT !.target[table] = {}]

\* full_refresh(df, table): the store afterwards, whether the call raised,
\* the value returned, and whether a transaction was begun. The insert of
\* to_sql(if_exists="append") fails on a key the table or the frame already
\* has.
FullRefresh(db, df, table, fault) ==
    LET s1 == Truncate(db, table)
        s2 == [s1 EXCEPT !.target[table] = @ \cup SeqSet(df.rows)]
        ok == /\ UniqueKeys(df.rows)
              /\ WellFormed(s2.target[table])
        Raise(reached) ==
            [db |-> Rollback(db, reached), raised |-> TRUE, ret |-> 0, begun |-> TRUE]
    IN  IF SkipsStore(df)
        THEN [db |-> db, raised |-> FALSE, ret |-> 0, begun |-> FALSE]
        ELSE IF fault = "begin" THEN Raise(db)
        ELSE IF fault = "execute" THEN Raise(db)
        ELSE IF fault = "to_sql" \/ ~ok THEN Raise(s1)
        ELSE IF fault = "commit" THEN Raise(s2)
        ELSE [db |-> s2, raised |-> FALSE, ret |-> Len(df.rows), begun |-> TRUE]

\* loader.full_refresh(df, table) on the current batch; called a second time
\* it is the same batch again.
CallFullRefresh(fault) ==
    /\ lpc \in {"prepared", "once"}
    /\ LET out == FullRefresh(Store, batch.df, batch.table, fault) IN
         /\ target' = out.db.target
         /\ staging' = out.db.staging
         /\ last' = [op |-> "full_refresh", df |-> batch.df, table |-> batch.table,
                     pre |-> target[batch.table], raised |-> out.raised,
                     ret |-> out.ret, begun |-> out.begun, fault |-> fault]
    /\ lpc' = IF lpc = "prepared" THEN "once" ELSE "twice"
    /\ UNCHANGED <<pipeline_runs, clock, batch, calls, orchVars, extractVars>>

NextRefresh ==
    \/ \E df \in Frames(MaxBatch) : Prepare(df, <<>>)
    \/ \E fault \in RefreshFaults : CallFullRefresh(fault)

SpecRefresh == InitLoader /\ [][NextRefresh]_vars

Refreshed == last.op = "full_refresh"

\* C40: after a full_refresh of a non-empty frame that returned, the table
\* holds exactly the frame's rows and the count returned is their number;
\* after one that raised, the truncate is rolled back and the table holds
\* its prior rows; with an empty frame the table is left as it was, no
\* transaction is begun and 0 is returned.
FullRefreshAtomic ==
    Refreshed =>
        /\ (~last.raised /\ ~Empty(last.df)) =>
              /\ target[last.table] = SeqSet(last.df.rows)
              /\ last.ret = Len(last.df.rows)
              /\ last.ret = Cardinality(target[last.table])
        /\ last.raised =>
              /\ ~Empty(last.df)
              /\ target[last.table] = last.pre
        /\ Empty(last.df) =>
              /\ ~last.raised
              /\ ~last.begun
              /\ last.ret = 0
              /\ target[last.table] = last.pre
        /\ staging = {}

\* C40 witness: a table with rows was refreshed with a frame of other rows
\* and now holds the frame's rows alone.
RefreshReplacedRows ==
    /\ Refreshed
    /\ ~last.raised
    /\ last.pre # {}
    /\ last.pre \cap SeqSet(last.df.rows) = {}
    /\ target[last.table] = SeqSet(last.df.rows)
    /\ Len(last.df.rows) >= 2

\* A failed insert after the truncate left the prior rows in place. It is
\* reached.
RefreshRolledBack ==
    /\ Refreshed
    /\ last.raised
    /\ last.fault = "to_sql"
    /\ last.pre # {}
    /\ target[last.table] = last.pre

====
